---- MODULE Spec2Model ----
(***************************************************************************)
(* Operator console link of the PDP-11 simulator (PDP11/opcon.c): the      *)
(* attach/detach lifecycle, the service routine oc_svc, the command        *)
(* decoder oc_get_console and the frame senders, as a state machine.       *)
(*                                                                         *)
(* Bytes are numbers (ASCII codes), a frame is the sequence of bytes one   *)
(* sim_write_serial call is handed.  A handler is one action, except where *)
(* it blocks in the reply loops of oc_get_swr / oc_get_rotary: there the   *)
(* handler stops at the wait (pc) and a second action, taken when the      *)
(* console delivers the reply, runs it to its end.                         *)
(***************************************************************************)
EXTENDS Naturals, Integers, Sequences, FiniteSets, TLC

(* ------------------------------------------------------------------ *)
(* Bounds of the model                                                 *)
(* ------------------------------------------------------------------ *)
\* auto-increments of act_addr followed after one load-address / attach
MaxIncr == 1
\* poll time-outs told apart while a handler waits for a reply byte
MaxPolls == 1
\* host milliseconds that pass in one step of the host clock
TimeStep == 10
\* length of the window of frame-emitting ticks that is remembered
Window == 15

(* ------------------------------------------------------------------ *)
(* Program constants                                                   *)
(* ------------------------------------------------------------------ *)
OC_INTERVAL == 10
QUERY_SWR_BYTES == 5
INP1 == 0
INP2 == 1
INP3 == 2
INP4 == 3
INP5 == 4
SWR_00_07_PORT == INP1
SWR_08_15_PORT == INP2
SWR_16_22_PORT == INP3
\* key switch and HALT switch bit of each model
SW_PL(m) == 128
SW_HE(m) == IF m = "MOD_1170" THEN 64 ELSE 1
DSPD_BUS_REG == 0
DSPD_DATA_PATHS == 1
DSPD_DISP_REG == 2
DSPD_MU_ADRS == 3
DSPD_MASK == 3
DSPA_PROGPHY == 0
DSPA_KERNEL_D == 1
DSPA_KERNEL_I == 2
DSPA_CONSPHY == 3
DSPA_SUPER_D == 4
DSPA_SUPER_I == 5
DSPA_USER_D == 6
DSPA_USER_I == 7
DSPA_MASK == 7
ACK_DEPO == 64
ACK_CONT == 8
ACK_LOAD == 4
ACK_START == 2
ACK_EXAM == 1

\* command bytes read from the console, frame tags written to it
ChH == 72
ChE == 69
Chc == 99
Chd == 100
Chl == 108
Chs == 115
Chx == 120
ChA == 65
ChB == 66
ChD == 68
ChF == 70
ChU == 85
ChQ == 81
ChR == 82
Chi == 105
Chp == 112
\* a byte outside the command alphabet
ChStray == 122
\* the comment character oc_read_line_p tests for
ChSemi == 59

\* status bits of port1 declared in opcon.h
FSTS_1145_ADRSERR == 128
FSTS_1170_ADRSERR == 128
FSTS_1145_INDDATA == 4
FSTS_1170_INDDATA == 4
FSTS_1140_VIRTUAL == 8
FSTS_1140_USER == 16
\* status bits of port2 declared in opcon.h
FSTS_1170_16BIT == 1
FSTS_1170_18BIT == 2
FSTS_1170_22BIT == 4
\* protection modes
MD_KER == 0
MD_SUP == 1
MD_UND == 2
MD_USR == 3

Models == {"MOD_1105", "MOD_1120", "MOD_1140", "MOD_1145", "MOD_1170"}
\* a cpu model the console has no panel for
AllModels == Models \cup {"MOD_1173"}
Rotary(m) == m \in {"MOD_1145", "MOD_1170"}

(* ------------------------------------------------------------------ *)
(* C integer operators                                                 *)
(* ------------------------------------------------------------------ *)
RECURSIVE BitAnd(_, _)
BitAnd(a, b) ==
    IF a = 0 \/ b = 0 THEN 0
    ELSE (a % 2) * (b % 2) + 2 * BitAnd(a \div 2, b \div 2)

RECURSIVE BitOr(_, _)
BitOr(a, b) ==
    IF a = 0 THEN b
    ELSE IF b = 0 THEN a
    ELSE (IF a % 2 = 1 \/ b % 2 = 1 THEN 1 ELSE 0) + 2 * BitOr(a \div 2, b \div 2)

Shr(a, n) == a \div (2 ^ n)
\* ~flag on a uint8
Not8(flag) == 255 - flag

(* ------------------------------------------------------------------ *)
(* Inputs                                                              *)
(* ------------------------------------------------------------------ *)
\* the two MMU enable signals MMR0.MME and MMR3.M22E
MMUStates == [mme : BOOLEAN, m22e : BOOLEAN]

\* switch register positions offered by the console (22-bit values)
SwAddrs == {
    1024,       \* 0x000400 plain memory
    1025,       \* 0x000401 odd address
    1280,       \* 0x000500 S[1] bit 0 set
    32766,      \* 0x007FFE last word of the configured memory
    59902,      \* 0x00E9FE just below the low boot rom window
    59904,      \* 0x00EA00 first word of the low boot rom window
    60414,      \* 0x00EBFE last word of the low boot rom window
    63486,      \* 0x00F7FE last word of the second boot rom window
    65534,      \* 0x00FFFE top of the 16-bit space
    131072,     \* 0x020000 above the configured memory
    262080,     \* 0x03FFC0 R0 alias
    262087,     \* 0x03FFC7 R7 alias
    262142,     \* 0x03FFFE top of the 18-bit space
    322048,     \* 0x04EA00 low 18 bits inside the boot rom window
    4188672,    \* 0x3FEA00 boot rom window in the 22-bit space
    4194300,    \* 0x3FFFFC
    4194301,    \* 0x3FFFFD odd, two below the 22-bit boundary
    4194302     \* 0x3FFFFE top of the 22-bit space
    }

\* the 5 bytes the console answers a 'Q' with
Snapshot(a, s3, s4, s5) ==
    [ x \in 0 .. (QUERY_SWR_BYTES - 1) |->
        CASE x = 0 -> a % 256
          [] x = 1 -> (a \div 256) % 256
          [] x = 2 -> BitOr((a \div 65536) % 64, s3)
          [] x = 3 -> s4
          [] x = 4 -> s5 ]

\* snapshots a load-address reads: every switch position
AddrSnaps == { Snapshot(a, 0, 0, 0) : a \in SwAddrs }

\* snapshots attach reads: key and HALT switch in their positions
AttachSnaps ==
    { Snapshot(1024, 0, 0, 0),      \* key POWER, HALT up
      Snapshot(1280, 0, 0, 0),      \* 11/05 .. 11/40: HALT down
      Snapshot(33792, 0, 0, 0),     \* 11/05 .. 11/40: key LOCK
      Snapshot(1024, 128, 0, 0),    \* 11/45: key LOCK
      Snapshot(1024, 0, 0, 65),     \* 11/45, 11/70: HALT down
      Snapshot(1024, 0, 0, 128) }   \* 11/70: key LOCK

\* snapshots a deposit reads: the data switches
DataSnaps == { Snapshot(1024, 0, 0, 0), Snapshot(43981, 0, 0, 0) }

\* snapshots with the rotary knobs of the 11/45 and 11/70 turned
KnobSnaps == { Snapshot(1024, 0, 0, 0), Snapshot(1024, 52, 0, 11) }

\* answers to the rotary query 'R'
RotaryBytes == {0, 20}

\* bytes the serial line can deliver to a command read
CmdBytes == {ChH, ChE, Chc, Chd, Chl, Chs, Chx, ChStray, 0}

\* contents of the display registers kept by the cpu (oc_ctl.A[], oc_ctl.D[])
ARegs == [ PRGPA |-> 4165906, CONPA |-> 3211264, KERND |-> 1118481,
           KERNI |-> 2236962, SUPRD |-> 3355443, SUPRI |-> 4473924,
           USERD |-> 5592405, USERI |-> 6710886 ]
DRegs == [ SHFR |-> 4660, BR |-> 43981, FPP |-> 291, DR |-> 65535 ]

\* values an uninitialized automatic variable may hold
Junk == {0, 11184810}

\* configured memory sizes (cpu_unit.capac)
MemSizes == {32768}

ZeroCtl ==
    [ act_addr |-> 0, inv_addr |-> FALSE, first_exam |-> FALSE,
      first_dep |-> FALSE, halt |-> 0, S |-> [ x \in 0 .. (QUERY_SWR_BYTES - 1) |-> 0 ],
      port1 |-> 0, port2 |-> 0, c_upd |-> 0, c_rot |-> 0 ]

NoCmd == [ text |-> "", a |-> 0, d |-> 0 ]
Cmd(t, a, d) == [ text |-> t, a |-> a, d |-> d ]

\* the state of a unit with no file attached and no event queued
NoTape == [ att |-> FALSE, buf |-> 0, pos |-> 0, active |-> FALSE ]

\* the last service event. op: the routine; ret: the status it returned to the
\* event loop; data: the frame moved
PtObs(op, ret, data) == [ op |-> op, ret |-> ret, data |-> data ]

\* characters the caller's buffer can hold for one line
CBUFSIZE == 3
\* cells followed on either side of the caller's buffer
Beyond == 2
\* offsets from cptr of the cells followed
Cells == (0 - Beyond) .. (CBUFSIZE + Beyond - 1)
\* a cell no keystroke was stored in
Unset == 0 - 1

VARIABLES
    cpu_model,  \* the cpu model the simulator is configured for
    MEMSIZE,    \* configured memory size
    oc_ldsc,    \* serial line: serport (port open), rcve (link active)
    oc_ctl,     \* the OC control block
    elapsed,    \* sim_os_msec() - oc_ctl.resched, saturated at OC_INTERVAL
    queued,     \* oc_svc is pending in the event queue
    stop_cpu,   \* the simulator's stop request flag
    pc,         \* "idle", or the reply loop a handler is blocked in
    polls,      \* poll time-outs of the current wait, modulo MaxPolls + 1
    nincr,      \* auto-increments since the last load-address / attach
    obs,        \* the last operation: name, byte read, frames written, result
    tickLog,    \* kinds of the last Window frame-emitting ticks
    ptr_csr,    \* paper tape reader control/status register
    ptp_csr,    \* paper tape punch control/status register
    int_req,    \* the devices with an interrupt request pending
    ptr_unit,   \* reader unit: att (UNIT_ATT), buf, pos, active (event queued)
    ptp_unit,   \* punch unit: att (UNIT_ATT), buf, pos, active (event queued)
    ptr_stopioe, \* reader STOP_IOE
    ptp_stopioe, \* punch STOP_IOE
    ptobs,      \* the last paper tape operation: name, status returned, data
    tptr,       \* oc_read_line_p: the write position, as an offset from cptr
    cbuf        \* oc_read_line_p: the memory at and around the caller's buffer

opvars == << cpu_model, MEMSIZE, oc_ldsc, oc_ctl, elapsed, queued, stop_cpu,
             pc, polls, nincr, obs, tickLog >>
ptvars == << ptr_csr, ptp_csr, int_req, ptr_unit, ptp_unit, ptr_stopioe,
             ptp_stopioe, ptobs >>
kbvars == << tptr, cbuf >>
vars == << opvars, ptvars, kbvars >>

\* op: the entry point; rx: bytes read from the link; tx: frames written to it;
\* out: the pseudo-command left in the caller's buffer; ret: the value returned
Obs(op, rx, tx, out, ret) ==
    [ op |-> op, rx |-> rx, tx |-> tx, out |-> out, ret |-> ret ]

Init ==
    /\ cpu_model \in AllModels
    /\ MEMSIZE \in MemSizes
    /\ oc_ldsc = [ serport |-> FALSE, rcve |-> FALSE ]
    /\ oc_ctl = ZeroCtl
    /\ elapsed = OC_INTERVAL
    /\ queued = FALSE
    /\ stop_cpu = FALSE
    /\ pc = "idle"
    /\ polls = 0
    /\ nincr = 0
    /\ obs = Obs("init", << >>, << >>, NoCmd, FALSE)
    /\ tickLog = << >>
    /\ ptr_csr = 0
    /\ ptp_csr = 0
    /\ int_req = {}
    /\ ptr_unit = NoTape
    /\ ptp_unit = NoTape
    /\ ptr_stopioe = 0
    /\ ptp_stopioe = 0
    /\ ptobs = PtObs("init", "SCPE_OK", 0)
    /\ tptr = 0
    /\ cbuf = [ i \in Cells |-> Unset ]


(* ------------------------------------------------------------------ *)
(* Status bytes and frames                                             *)
(* ------------------------------------------------------------------ *)
\* oc_port1: set or clear one flag of port1
oc_port1(ctl, flag, action) ==
    [ ctl EXCEPT !.port1 = IF ~action THEN BitAnd(ctl.port1, Not8(flag))
                           ELSE BitOr(ctl.port1, flag) ]

\* oc_port2: set or clear one flag of port2
oc_port2(ctl, flag, action) ==
    [ ctl EXCEPT !.port2 = IF ~action THEN BitAnd(ctl.port2, Not8(flag))
                           ELSE BitOr(ctl.port2, flag) ]

\* oc_mmu where the 22-bit enable alone selects 22-bit mapping
MmuMap_M22EAlone(mm) == IF mm.m22e THEN 22 ELSE IF mm.mme THEN 18 ELSE 16

\* oc_mmu: the mapping derived from MMR0.MME and MMR3.M22E
MmuMap(mm) == IF mm.mme THEN (IF mm.m22e THEN 22 ELSE 18) ELSE 16

\* oc_mmu: the status bits after the call
MmuCtl(ctl, m, mm) ==
    CASE m = "MOD_1140" ->
           LET c0 == oc_port1(ctl, FSTS_1140_VIRTUAL, FALSE)
           IN  IF MmuMap(mm) = 18 THEN oc_port1(c0, FSTS_1140_VIRTUAL, TRUE) ELSE c0
      [] m = "MOD_1170" ->
           LET c0 == oc_port2(oc_port2(oc_port2(ctl, FSTS_1170_16BIT, FALSE),
                                       FSTS_1170_18BIT, FALSE),
                              FSTS_1170_22BIT, FALSE)
           IN  CASE MmuMap(mm) = 16 -> oc_port2(c0, FSTS_1170_16BIT, TRUE)
                 [] MmuMap(mm) = 18 -> oc_port2(c0, FSTS_1170_18BIT, TRUE)
                 [] OTHER -> oc_port2(c0, FSTS_1170_22BIT, TRUE)
      [] OTHER -> ctl

\* the ring bits where SUPER clears the low bit
RingStatus_SupLow(port1, value) ==
    LET s0 == BitOr(port1, 3)
    IN  CASE value = MD_KER -> BitAnd(s0, 252)
          [] value = MD_SUP -> BitAnd(s0, 254)
          [] OTHER -> s0

\* oc_ringprot on the 11/45 and 11/70: port1 with the two ring bits coded
RingStatus(port1, value) ==
    LET s0 == BitOr(port1, 3)
        s1 == IF value = MD_KER THEN BitAnd(s0, 252) ELSE s0
        s2 == IF value = MD_SUP THEN BitAnd(s1, 253) ELSE s1
        s3 == IF value = MD_USR THEN BitAnd(s2, 255) ELSE s2
    IN  s3

\* oc_ringprot: the status bits after the call
RingCtl(ctl, m, value) ==
    CASE m = "MOD_1140" ->
           IF value = MD_KER
           THEN oc_port1(oc_port1(ctl, FSTS_1140_VIRTUAL, TRUE), FSTS_1140_USER, FALSE)
           ELSE oc_port1(oc_port1(ctl, FSTS_1140_VIRTUAL, FALSE), FSTS_1140_USER, TRUE)
      [] m \in {"MOD_1145", "MOD_1170"} ->
           [ ctl EXCEPT !.port1 = RingStatus(ctl.port1, value) ]
      [] OTHER -> ctl

\* the address-error flag of the two models that have one
ClearAdrsErr(ctl, m) ==
    CASE m = "MOD_1145" -> oc_port1(ctl, FSTS_1145_ADRSERR, FALSE)
      [] m = "MOD_1170" -> oc_port1(ctl, FSTS_1170_ADRSERR, FALSE)
      [] OTHER -> ctl

\* the mask chosen by the 22-bit enable alone
AddrMask_M22EAlone(mm) == IF mm.m22e THEN 63 ELSE IF mm.mme THEN 3 ELSE 0

\* mask of the top address byte: 0x00 -> 16 bit, 0x03 -> 18 bit, 0x3F -> 22 bit
AddrMask(mm) == IF mm.mme THEN (IF mm.m22e THEN 63 ELSE 3) ELSE 0

\* the address bytes with the low byte sent before the middle byte
AddrBytes_LowFirst(A, mm) ==
    << BitAnd(Shr(A, 16), AddrMask(mm)), BitAnd(A, 255), BitAnd(Shr(A, 8), 255) >>

AddrBytes(A, mm) ==
    << BitAnd(Shr(A, 16), AddrMask(mm)), BitAnd(Shr(A, 8), 255), BitAnd(A, 255) >>
DataBytes(D) == << BitAnd(Shr(D, 8), 255), BitAnd(D, 255) >>

FrameA(A, mm) == << ChA >> \o AddrBytes(A, mm)
FrameD(D) == << ChD >> \o DataBytes(D)
FrameB(A, D, mm) == << ChB >> \o AddrBytes(A, mm) \o DataBytes(D)
FrameU(A, D, mm, ctl) ==
    << ChU >> \o AddrBytes(A, mm) \o DataBytes(D) \o << ctl.port1, ctl.port2 >>
FrameF(ctl) == << ChF, ctl.port1, ctl.port2 >>
FrameQ == << ChQ >>
FrameR == << ChR >>
FrameI == << Chi >>
\* buf[1] is set for the five supported models only
AckPort(m, junk) == IF m \in Models THEN INP3 + 48 ELSE junk % 256
FrameAck(m, mask, junk) == << Chc, AckPort(m, junk), mask >>
FrameCfg(m) ==
    << Chp, CASE m = "MOD_1105" -> 49 [] m = "MOD_1120" -> 50
              [] m = "MOD_1140" -> 51 [] m = "MOD_1145" -> 52
              [] OTHER -> 53 >>

(* ------------------------------------------------------------------ *)
(* Address handling of the console state machine                       *)
(* ------------------------------------------------------------------ *)
\* oc_extract_address without the mask of the model
oc_extract_address_NoMask(ctl, m, memsize) ==
    LET raw == ctl.S[SWR_16_22_PORT] * 65536 + ctl.S[SWR_08_15_PORT] * 256
                 + ctl.S[SWR_00_07_PORT]
    IN  [ A |-> raw, inv |-> raw >= memsize ]

\* oc_extract_address: the switch value masked to the model, and inv_addr
oc_extract_address(ctl, m, memsize) ==
    LET raw == ctl.S[SWR_16_22_PORT] * 65536 + ctl.S[SWR_08_15_PORT] * 256
                 + ctl.S[SWR_00_07_PORT]
        A == CASE m \in {"MOD_1105", "MOD_1120"} -> BitAnd(raw, 65535)
               [] m \in {"MOD_1140", "MOD_1145"} -> BitAnd(raw, 262143)
               [] m = "MOD_1170" -> BitAnd(raw, 4194303)
               [] OTHER -> raw
        inv == CASE m \in {"MOD_1105", "MOD_1120"} ->
                      A >= memsize /\ ~(A > 57343 /\ A < 65535)
                 [] m \in {"MOD_1140", "MOD_1145"} ->
                      A >= memsize /\ ~(A > 253951 /\ A < 262143)
                 [] m = "MOD_1170" ->
                      A >= memsize /\ ~(A > 4186111 /\ A < 4194303)
                 [] OTHER -> FALSE
    IN  [ A |-> A, inv |-> inv ]

oc_extract_data(ctl) == ctl.S[SWR_08_15_PORT] * 256 + ctl.S[SWR_00_07_PORT]

\* the CPU register alias window R0 [777 700] .. R7 [777 707]
InRegSpace(a) == a >= 262080 /\ a <= 262087

\* the increment without the register space case
IncrAddr_NoRegSpace(a) ==
    LET b == a + 2
        w == IF b > 4194302 THEN 0 ELSE b
    IN  IF BitAnd(w, 1) # 0 THEN BitAnd(w, 4194302) ELSE w

\* the increment that leaves an odd address odd
IncrAddr_KeepOdd(a) ==
    IF InRegSpace(a) THEN a + 1
    ELSE LET b == a + 2
         IN  IF b > 4194302 THEN 0 ELSE b

\* the increment without the wrap at the 22-bit boundary
IncrAddr_NoWrap(a) ==
    IF InRegSpace(a) THEN a + 1
    ELSE LET b == a + 2
         IN  IF BitAnd(b, 1) # 0 THEN BitAnd(b, 4194302) ELSE b

\* the address increment of a repeated examine / deposit
IncrAddr(a) ==
    IF InRegSpace(a) THEN a + 1
    ELSE LET b == a + 2
             w == IF b > 4194302 THEN 0 ELSE b
         IN  IF BitAnd(w, 1) # 0 THEN BitAnd(w, 4194302) ELSE w

\* the boot rom test of deposit, as the code evaluates it
InBootRom(a) ==
    LET m == BitAnd(a, 262143)
    IN  \/ (m >= 4188672 /\ m < 4189184)
        \/ (m >= 59904 /\ m < 60416)
        \/ (m >= 4191744 /\ m < 4192256)
        \/ (m >= 62976 /\ m < 63488)

\* oc_clear_halt: clear the halt bit of the snapshot, halt mode and toggles
oc_clear_halt(ctl, m) ==
    LET port == CASE m = "MOD_1105" -> INP2
                  [] m \in {"MOD_1120", "MOD_1140"} -> INP3
                  [] OTHER -> INP4
        S1 == IF m \in Models
              THEN [ ctl.S EXCEPT ![port] = BitAnd(ctl.S[port], Not8(SW_HE(m))) ]
              ELSE ctl.S
    IN  [ ctl EXCEPT !.S = S1, !.halt = 0 ]

\* the inv_addr branch of examine and deposit
InvAddrCtl(ctl, m) ==
    CASE m = "MOD_1145" -> oc_port1(ctl, FSTS_1145_ADRSERR, TRUE)
      [] m = "MOD_1170" -> oc_port1(ctl, FSTS_1170_ADRSERR, TRUE)
      [] OTHER -> ctl
\* the inv_addr branch that freezes no model
InvAddrStop_Never(m, stop) == stop

InvAddrStop(m, stop) == IF m \in {"MOD_1105", "MOD_1120"} THEN TRUE ELSE stop


(* ------------------------------------------------------------------ *)
(* oc_get_console: the command bodies                                  *)
(* Each yields the control block, the frames written, the pseudo       *)
(* command and stop_cpu as the case of the switch leaves them.         *)
(* ------------------------------------------------------------------ *)
Res(ctl, tx, out, stop) == [ ctl |-> ctl, tx |-> tx, out |-> out, stop |-> stop ]

\* case 'H' that records the key as up
CmdHaltDown_Idle(ctl, stop) ==
    Res([ ctl EXCEPT !.halt = 1 ], << >>, Cmd(";halt key down", 0, 0), stop)

\* case 'H'
CmdHaltDown(ctl, stop) ==
    Res([ ctl EXCEPT !.halt = 2 ], << >>, Cmd(";halt key down", 0, 0), stop)

\* case 'E' with the call of oc_toggle_clear left out
CmdHaltUp_NoClear(ctl, stop) ==
    Res([ ctl EXCEPT !.halt = 1 ], << >>, Cmd(";halt key up", 0, 0), stop)

\* case 'E'
CmdHaltUp(ctl, stop) ==
    Res([ ctl EXCEPT !.halt = 1 ], << FrameI >>, Cmd(";halt key up", 0, 0), stop)

\* case 'c' that leaves the address-error flag alone
CmdContinue_KeepErr(ctl, m, junk, stop) ==
    IF ctl.halt = 2
    THEN Res(ctl, << FrameAck(m, ACK_CONT, junk) >>, Cmd("step", 0, 0), stop)
    ELSE Res(oc_clear_halt(ctl, m),
             << FrameAck(m, ACK_CONT, junk), FrameI >>,
             Cmd("continue", 0, 0), stop)

\* case 'c' with the call of oc_toggle_ack disabled
CmdContinue_NoAck(ctl, m, junk, stop) ==
    IF ctl.halt = 2
    THEN Res(ctl, << >>, Cmd("step", 0, 0), stop)
    ELSE Res(oc_clear_halt(ClearAdrsErr(ctl, m), m), << FrameI >>,
             Cmd("continue", 0, 0), stop)

\* case 'c'
CmdContinue(ctl, m, junk, stop) ==
    IF ctl.halt = 2
    THEN Res(ctl, << FrameAck(m, ACK_CONT, junk) >>, Cmd("step", 0, 0), stop)
    ELSE Res(oc_clear_halt(ClearAdrsErr(ctl, m), m),
             << FrameAck(m, ACK_CONT, junk), FrameI >>,
             Cmd("continue", 0, 0), stop)

\* case 'd' that acknowledges only a deposit it carries out
CmdDeposit_RejectSilent(ctl, m, mm, junk, stop) ==
    LET a1 == IF ctl.first_dep = FALSE THEN IncrAddr(ctl.act_addr) ELSE ctl.act_addr
        ctl1 == [ ctl EXCEPT !.act_addr = a1 ]
        ack == FrameAck(m, ACK_DEPO, junk)
    IN  IF ctl1.inv_addr
        THEN Res(InvAddrCtl(ctl1, m), << >>,
                 Cmd(";address out of defined range", 0, 0), InvAddrStop(m, stop))
        ELSE IF InBootRom(a1)
        THEN Res(ctl1, << >>, Cmd(";no deposit in boot rom range", 0, 0), stop)
        ELSE LET D == oc_extract_data(ctl1)
             IN  Res([ ctl1 EXCEPT !.first_exam = TRUE, !.first_dep = FALSE ],
                     << FrameB(a1, D, mm), ack >>, Cmd("deposit", a1, D), stop)

\* case 'd' that leaves first_exam as it was
CmdDeposit_KeepExam(ctl, m, mm, junk, stop) ==
    LET a1 == IF ctl.first_dep = FALSE THEN IncrAddr(ctl.act_addr) ELSE ctl.act_addr
        ctl1 == [ ctl EXCEPT !.act_addr = a1 ]
        ack == FrameAck(m, ACK_DEPO, junk)
    IN  IF ctl1.inv_addr
        THEN Res(InvAddrCtl(ctl1, m), << ack >>,
                 Cmd(";address out of defined range", 0, 0), InvAddrStop(m, stop))
        ELSE IF InBootRom(a1)
        THEN Res(ctl1, << ack >>, Cmd(";no deposit in boot rom range", 0, 0), stop)
        ELSE LET D == oc_extract_data(ctl1)
             IN  Res([ ctl1 EXCEPT !.first_dep = FALSE ],
                     << FrameB(a1, D, mm), ack >>, Cmd("deposit", a1, D), stop)

\* case 'd', after oc_get_swr
CmdDeposit(ctl, m, mm, junk, stop) ==
    LET a1 == IF ctl.first_dep = FALSE THEN IncrAddr(ctl.act_addr) ELSE ctl.act_addr
        ctl1 == [ ctl EXCEPT !.act_addr = a1 ]
        ack == FrameAck(m, ACK_DEPO, junk)
    IN  IF ctl1.inv_addr
        THEN Res(InvAddrCtl(ctl1, m), << ack >>,
                 Cmd(";address out of defined range", 0, 0), InvAddrStop(m, stop))
        ELSE IF InBootRom(a1)
        THEN Res(ctl1, << ack >>, Cmd(";no deposit in boot rom range", 0, 0), stop)
        ELSE LET D == oc_extract_data(ctl1)
             IN  Res([ ctl1 EXCEPT !.first_exam = TRUE, !.first_dep = FALSE ],
                     << FrameB(a1, D, mm), ack >>, Cmd("deposit", a1, D), stop)

\* case 'l', after oc_get_swr
CmdLoad(ctl, m, memsize, mm, junk, stop) ==
    LET e == oc_extract_address(ctl, m, memsize)
    IN  Res([ ctl EXCEPT !.first_dep = TRUE, !.first_exam = TRUE,
                         !.act_addr = e.A, !.inv_addr = e.inv ],
            << FrameA(e.A, mm), FrameAck(m, ACK_LOAD, junk) >>,
            Cmd(";load address", e.A, 0), stop)

\* case 's' without the call of oc_clear_halt
CmdStart_KeepHalt(ctl, m, stop) ==
    IF ctl.halt = 2
    THEN Res(IF m = "MOD_1170" THEN oc_port1(ctl, FSTS_1170_ADRSERR, FALSE) ELSE ctl,
             << >>, Cmd("reset all", 0, 0), stop)
    ELSE Res(ctl, << >>, Cmd("run", ctl.act_addr, 0), stop)

\* case 's'
CmdStart(ctl, m, stop) ==
    IF ctl.halt = 2
    THEN Res(oc_clear_halt(IF m = "MOD_1170"
                             THEN oc_port1(ctl, FSTS_1170_ADRSERR, FALSE)
                             ELSE ctl, m),
             << FrameI >>, Cmd("reset all", 0, 0), stop)
    ELSE Res(oc_clear_halt(ctl, m), << FrameI >>, Cmd("run", ctl.act_addr, 0), stop)



\* case 'x' that leaves first_dep as it was
CmdExamine_KeepDep(ctl, m, mm, junk, stop) ==
    LET a1 == IF ctl.first_exam = FALSE THEN IncrAddr(ctl.act_addr) ELSE ctl.act_addr
        ctl1 == [ ctl EXCEPT !.act_addr = a1 ]
        ack == FrameAck(m, ACK_EXAM, junk)
    IN  IF ctl1.inv_addr
        THEN Res(InvAddrCtl(ctl1, m), << ack >>,
                 Cmd(";address out of defined range", 0, 0), InvAddrStop(m, stop))
        ELSE Res([ ctl1 EXCEPT !.first_exam = FALSE ],
                 << FrameA(a1, mm), ack >>, Cmd("examine", a1, 0), stop)

\* case 'x'
CmdExamine(ctl, m, mm, junk, stop) ==
    LET a1 == IF ctl.first_exam = FALSE THEN IncrAddr(ctl.act_addr) ELSE ctl.act_addr
        ctl1 == [ ctl EXCEPT !.act_addr = a1 ]
        ack == FrameAck(m, ACK_EXAM, junk)
    IN  IF ctl1.inv_addr
        THEN Res(InvAddrCtl(ctl1, m), << ack >>,
                 Cmd(";address out of defined range", 0, 0), InvAddrStop(m, stop))
        ELSE Res([ ctl1 EXCEPT !.first_exam = FALSE, !.first_dep = TRUE ],
                 << FrameA(a1, mm), ack >>, Cmd("examine", a1, 0), stop)

\* the switch on the command byte (the snapshot already refreshed for d and l)
CmdBody(c, ctl, m, memsize, mm, junk, stop) ==
    CASE c = ChH -> CmdHaltDown(ctl, stop)
      [] c = ChE -> CmdHaltUp(ctl, stop)
      [] c = Chc -> CmdContinue(ctl, m, junk, stop)
      [] c = Chd -> CmdDeposit(ctl, m, mm, junk, stop)
      [] c = Chl -> CmdLoad(ctl, m, memsize, mm, junk, stop)
      [] c = Chs -> CmdStart(ctl, m, stop)
      [] c = Chx -> CmdExamine(ctl, m, mm, junk, stop)

CmdAlphabet == {ChH, ChE, Chc, Chd, Chl, Chs, Chx}

\* the command auto-increments act_addr
Increments(c, ctl) ==
    \/ c = Chd /\ ctl.first_dep = FALSE
    \/ c = Chx /\ ctl.first_exam = FALSE

NextIncr(c, ctl, n) ==
    IF c = Chl THEN 0 ELSE IF Increments(c, ctl) THEN n + 1 ELSE n

\* values the uninitialized locals take: the supported models set them all
JunkOf(m) == IF m \in Models THEN {0} ELSE Junk

SnapBytes(s) == [ x \in 1 .. QUERY_SWR_BYTES |-> s[x - 1] ]


(* ------------------------------------------------------------------ *)
(* oc_get_console                                                      *)
(* ------------------------------------------------------------------ *)
\* the end of oc_get_console without the call of oc_send_status
FinishConsole_NoStatus(r, rx, tx0) ==
    /\ oc_ctl' = r.ctl
    /\ stop_cpu' = r.stop
    /\ obs' = Obs("oc_get_console", rx, tx0 \o r.tx, r.out, TRUE)
    /\ pc' = "idle"
    /\ polls' = 0

\* the end of oc_get_console: the status frame, and TRUE
FinishConsole(r, rx, tx0) ==
    /\ oc_ctl' = r.ctl
    /\ stop_cpu' = r.stop
    /\ obs' = Obs("oc_get_console", rx, tx0 \o r.tx \o << FrameF(r.ctl) >>, r.out, TRUE)
    /\ pc' = "idle"
    /\ polls' = 0

\* a byte outside the switch treated as a command: status frame and TRUE
IgnoreByte_Status(c) ==
    /\ obs' = Obs("oc_get_console", IF c = 0 THEN << >> ELSE << c >>,
                  << FrameF(oc_ctl) >>, NoCmd, TRUE)
    /\ UNCHANGED << oc_ctl, stop_cpu, pc, polls, nincr >>

\* no byte read, byte 0, or the default case of the switch: FALSE at once
IgnoreByte(c) ==
    /\ obs' = Obs("oc_get_console", IF c = 0 THEN << >> ELSE << c >>,
                  << >>, NoCmd, FALSE)
    /\ UNCHANGED << oc_ctl, stop_cpu, pc, polls, nincr >>

\* c: the byte the link delivers (0: none); wf: the write of 'Q' fails
oc_get_console(c, mm, wf, junk) ==
    /\ pc = "idle"
    /\ IF ~oc_ldsc.rcve
       THEN /\ obs' = Obs("oc_get_console", << >>, << >>, NoCmd, FALSE)
            /\ UNCHANGED << oc_ctl, stop_cpu, pc, polls, nincr >>
       ELSE IF c \notin CmdAlphabet
       THEN IgnoreByte(c)
       ELSE /\ Increments(c, oc_ctl) => nincr < MaxIncr
            /\ IF c \in {Chd, Chl} /\ ~wf
               THEN \* blocked in the reply loop of oc_get_swr
                    /\ oc_ctl' = IF c = Chl THEN ClearAdrsErr(oc_ctl, cpu_model)
                                 ELSE oc_ctl
                    /\ pc' = IF c = Chl THEN "load_swr" ELSE "dep_swr"
                    /\ polls' = 0
                    /\ obs' = Obs("oc_get_console", << c >>, << FrameQ >>, NoCmd, FALSE)
                    /\ UNCHANGED << stop_cpu, nincr >>
               ELSE /\ FinishConsole(
                          CmdBody(c, IF c = Chl THEN ClearAdrsErr(oc_ctl, cpu_model)
                                     ELSE oc_ctl,
                                  cpu_model, MEMSIZE, mm, junk, stop_cpu),
                          << c >>, << >>)
                    /\ nincr' = NextIncr(c, oc_ctl, nincr)
    /\ UNCHANGED << ptvars, kbvars, cpu_model, MEMSIZE, oc_ldsc, elapsed, queued, tickLog >>

\* the console answers the 'Q' of a load-address or deposit with snapshot s
ConsoleSwrReply(s, mm, junk) ==
    /\ pc \in {"load_swr", "dep_swr"}
    /\ s \in (IF pc = "load_swr" THEN AddrSnaps ELSE DataSnaps)
    /\ LET c == IF pc = "load_swr" THEN Chl ELSE Chd
           ctl == [ oc_ctl EXCEPT !.S = s ]
       IN  /\ FinishConsole(CmdBody(c, ctl, cpu_model, MEMSIZE, mm, junk, stop_cpu),
                            obs.rx \o SnapBytes(s), obs.tx)
           /\ nincr' = NextIncr(c, oc_ctl, nincr)
    /\ UNCHANGED << ptvars, kbvars, cpu_model, MEMSIZE, oc_ldsc, elapsed, queued, tickLog >>

\* oc_show: the word printed for the state of the link
oc_show == IF oc_ldsc.rcve THEN "active" ELSE "not active"

\* the first character of each string oc_get_console leaves in cptr
FirstChar(text) ==
    CASE text \in {";halt key down", ";halt key up", ";load address",
                   ";address out of defined range",
                   ";no deposit in boot rom range"} -> ChSemi
      [] text = "examine" -> 101
      [] text = "deposit" -> 100
      [] text = "continue" -> 99
      [] text = "step" -> 115
      [] text \in {"run", "reset all"} -> 114
      [] OTHER -> 0

\* the line handed on as it stands, comment or not
StripComment_Never(out) == out

\* oc_read_line_p: a line that begins with ';' is cut to the empty string
StripComment(out) == IF FirstChar(out.text) = ChSemi THEN NoCmd ELSE out

\* oc_read_line_p from the poll of the console that returned TRUE to its
\* return: the line is stripped, and halt mode 1 stops the processor.
\* oc_master raises and drops the MASTER / PROC flag around the poll, a flag
\* that no state of this model holds set.
oc_read_line_p ==
    /\ pc = "idle"
    /\ obs.op = "oc_get_console" /\ obs.ret
    /\ obs' = Obs("oc_read_line_p", obs.rx, obs.tx, StripComment(obs.out), TRUE)
    /\ stop_cpu' = IF oc_ctl.halt = 1 THEN TRUE ELSE stop_cpu
    /\ tptr' = 0
    /\ UNCHANGED << ptvars, cbuf, cpu_model, MEMSIZE, oc_ldsc, oc_ctl, elapsed,
                    queued, pc, polls, nincr, tickLog >>

\* oc_poll times out in a reply loop and the loop polls again; the loop keeps
\* no count, polls numbers the time-outs up to MaxPolls and starts over
PollTimeout ==
    /\ pc # "idle"
    /\ polls' = (polls + 1) % (MaxPolls + 1)
    /\ UNCHANGED << ptvars, kbvars, cpu_model, MEMSIZE, oc_ldsc, oc_ctl, elapsed, queued, stop_cpu,
                    pc, nincr, obs, tickLog >>

(* ------------------------------------------------------------------ *)
(* oc_attach, oc_detach, oc_reset                                      *)
(* ------------------------------------------------------------------ *)
AttachResults == {"arg", "precheck", "openfail", "ok"}

\* the control block after the memset alone
FreshCtl_NoFlags == ZeroCtl

\* the control block after the memset and the two first-flags
FreshCtl == [ ZeroCtl EXCEPT !.first_exam = TRUE, !.first_dep = TRUE ]

\* key and HALT switch of the snapshot: the halt mode after attach
AttachHalt(ctl, m) ==
    LET K == CASE m \in {"MOD_1105", "MOD_1120", "MOD_1140"} ->
                    BitAnd(ctl.S[INP2], SW_PL(m))
               [] m = "MOD_1145" -> BitAnd(ctl.S[INP3], SW_PL(m))
               [] OTHER -> BitAnd(ctl.S[INP5], SW_PL(m))
        H == CASE m \in {"MOD_1105", "MOD_1120", "MOD_1140"} ->
                    BitAnd(ctl.S[INP2], SW_HE(m))
               [] OTHER -> BitAnd(ctl.S[INP5], SW_HE(m))
    IN  IF K = 0 /\ H # 0 THEN 2 ELSE ctl.halt

\* the end of oc_attach, after oc_get_swr
FinishAttach(ctl, rx, tx0, mm) ==
    LET ctl1 == [ ctl EXCEPT !.halt = AttachHalt(ctl, cpu_model) ]
    IN  /\ oc_ctl' = ctl1
        /\ obs' = Obs("oc_attach", rx, tx0 \o << FrameU(8197, 8213, mm, ctl1) >>,
                      NoCmd, TRUE)
        /\ elapsed' = 0
        /\ pc' = "idle"
        /\ polls' = 0

\* res: outcome of the argument check and of opening the port;
\* wfc, wfq: the write of the configuration tag / of 'Q' fails
oc_attach(res, wfc, wfq, mm) ==
    /\ pc = "idle"
    /\ CASE res \in {"arg", "precheck"} ->
              /\ oc_ldsc' = [ oc_ldsc EXCEPT !.rcve = FALSE ]
              /\ obs' = Obs("oc_attach", << >>, << >>, NoCmd, FALSE)
              /\ UNCHANGED << oc_ctl, elapsed, pc, polls, nincr, tickLog >>
         [] res = "openfail" ->
              /\ oc_ldsc' = [ serport |-> FALSE, rcve |-> FALSE ]
              /\ obs' = Obs("oc_attach", << >>, << >>, NoCmd, FALSE)
              /\ UNCHANGED << oc_ctl, elapsed, pc, polls, nincr, tickLog >>
         [] res = "ok" ->
              /\ oc_ldsc' = [ serport |-> TRUE, rcve |-> TRUE ]
              /\ nincr' = 0
              /\ tickLog' = << >>
              /\ IF cpu_model \notin Models
                 THEN /\ oc_ctl' = FreshCtl
                      /\ elapsed' = OC_INTERVAL
                      /\ obs' = Obs("oc_attach", << >>, << >>, NoCmd, TRUE)
                      /\ UNCHANGED << pc, polls >>
                 ELSE IF wfc
                 THEN /\ oc_ctl' = FreshCtl
                      /\ elapsed' = OC_INTERVAL
                      /\ obs' = Obs("oc_attach", << >>, << >>, NoCmd, FALSE)
                      /\ UNCHANGED << pc, polls >>
                 ELSE IF wfq
                 THEN FinishAttach(FreshCtl, << >>, << FrameCfg(cpu_model) >>, mm)
                 ELSE /\ oc_ctl' = FreshCtl
                      /\ elapsed' = OC_INTERVAL
                      /\ pc' = "attach_swr"
                      /\ polls' = 0
                      /\ obs' = Obs("oc_attach", << >>,
                                    << FrameCfg(cpu_model), FrameQ >>, NoCmd, FALSE)
    /\ UNCHANGED << ptvars, kbvars, cpu_model, MEMSIZE, queued, stop_cpu >>

\* the console answers the 'Q' of oc_attach with snapshot s
AttachSwrReply(s, mm) ==
    /\ pc = "attach_swr"
    /\ FinishAttach([ oc_ctl EXCEPT !.S = s ], obs.rx \o SnapBytes(s), obs.tx, mm)
    /\ UNCHANGED << ptvars, kbvars, cpu_model, MEMSIZE, oc_ldsc, queued, stop_cpu, nincr, tickLog >>

oc_detach ==
    /\ pc = "idle"
    /\ IF ~oc_ldsc.serport
       THEN UNCHANGED << oc_ldsc, queued >>
       ELSE /\ queued' = FALSE
            /\ oc_ldsc' = [ serport |-> FALSE, rcve |-> FALSE ]
    /\ obs' = Obs("oc_detach", << >>, << >>, NoCmd, TRUE)
    /\ UNCHANGED << ptvars, kbvars, cpu_model, MEMSIZE, oc_ctl, elapsed, stop_cpu, pc, polls,
                    nincr, tickLog >>

oc_reset ==
    /\ pc = "idle"
    /\ queued' = TRUE
    /\ obs' = Obs("oc_reset", << >>, << >>, NoCmd, TRUE)
    /\ UNCHANGED << ptvars, kbvars, cpu_model, MEMSIZE, oc_ldsc, oc_ctl, elapsed, stop_cpu, pc,
                    polls, nincr, tickLog >>

\* host time passes
HostTime ==
    /\ elapsed < OC_INTERVAL
    /\ elapsed' = IF elapsed + TimeStep > OC_INTERVAL THEN OC_INTERVAL
                  ELSE elapsed + TimeStep
    /\ UNCHANGED << ptvars, kbvars, cpu_model, MEMSIZE, oc_ldsc, oc_ctl, queued, stop_cpu, pc,
                    polls, nincr, obs, tickLog >>


(* ------------------------------------------------------------------ *)
(* oc_svc, oc_get_rotary, oc_get_halt                                  *)
(* ------------------------------------------------------------------ *)
\* the address of a tick with every selection masked to the model width
SvcAddr_AllWide(ctl, m, junk) ==
    LET sel(k) ==
          CASE k = DSPA_PROGPHY -> "PRGPA" [] k = DSPA_CONSPHY -> "CONPA"
            [] k = DSPA_KERNEL_D -> "KERND" [] k = DSPA_KERNEL_I -> "KERNI"
            [] k = DSPA_SUPER_D -> "SUPRD" [] k = DSPA_SUPER_I -> "SUPRI"
            [] k = DSPA_USER_D -> "USERD" [] OTHER -> "USERI"
    IN  CASE m \in {"MOD_1105", "MOD_1120"} -> BitAnd(ARegs.PRGPA, 65535)
          [] m = "MOD_1140" -> BitAnd(ARegs.PRGPA, 262143)
          [] m = "MOD_1145" ->
                BitAnd(ARegs[sel(BitAnd(Shr(ctl.S[INP3], 4), DSPA_MASK))], 262143)
          [] m = "MOD_1170" ->
                BitAnd(ARegs[sel(BitAnd(ctl.S[INP5], DSPA_MASK))], 4194303)
          [] OTHER -> junk

\* the address shown by a tick
SvcAddr(ctl, m, junk) ==
    LET sel(k) ==
          CASE k = DSPA_PROGPHY -> "PRGPA" [] k = DSPA_CONSPHY -> "CONPA"
            [] k = DSPA_KERNEL_D -> "KERND" [] k = DSPA_KERNEL_I -> "KERNI"
            [] k = DSPA_SUPER_D -> "SUPRD" [] k = DSPA_SUPER_I -> "SUPRI"
            [] k = DSPA_USER_D -> "USERD" [] OTHER -> "USERI"
        pick(k, wide) ==
          IF k \in {DSPA_PROGPHY, DSPA_CONSPHY} THEN BitAnd(ARegs[sel(k)], wide)
          ELSE BitAnd(ARegs[sel(k)], 65535)
    IN  CASE m \in {"MOD_1105", "MOD_1120"} -> BitAnd(ARegs.PRGPA, 65535)
          [] m = "MOD_1140" -> BitAnd(ARegs.PRGPA, 262143)
          [] m = "MOD_1145" -> pick(BitAnd(Shr(ctl.S[INP3], 4), DSPA_MASK), 262143)
          [] m = "MOD_1170" -> pick(BitAnd(ctl.S[INP5], DSPA_MASK), 4194303)
          [] OTHER -> junk

\* the data shown by a tick
SvcData(ctl, m, junk) ==
    LET pick(k) ==
          CASE k = DSPD_DATA_PATHS -> DRegs.SHFR [] k = DSPD_BUS_REG -> DRegs.BR
            [] k = DSPD_MU_ADRS -> DRegs.FPP [] OTHER -> DRegs.DR
    IN  CASE m \in {"MOD_1105", "MOD_1120", "MOD_1140"} -> DRegs.SHFR
          [] m = "MOD_1145" -> pick(BitAnd(Shr(ctl.S[INP3], 2), DSPD_MASK))
          [] m = "MOD_1170" -> pick(BitAnd(Shr(ctl.S[INP5], 3), DSPD_MASK))
          [] OTHER -> junk % 65536

\* the indirect-data flag of the two models with rotary knobs
SvcIndData(ctl, m, ind) ==
    CASE m = "MOD_1145" -> oc_port1(ctl, FSTS_1145_INDDATA, ind)
      [] m = "MOD_1170" -> oc_port1(ctl, FSTS_1170_INDDATA, ind)
      [] OTHER -> ctl

\* if (oc_ctl.c_upd++ > 4), if (oc_ctl.c_rot++ > 2)
UpdDue(ctl) == ctl.c_upd > 4
RotDue(ctl) == ctl.c_rot > 2

\* oc_get_halt that clears the toggles on every byte other than 'H'
oc_get_halt_body_AnyClears(ctl, hb) ==
    IF hb = 0 THEN [ ctl |-> ctl, rx |-> << >>, tx |-> << >>, ret |-> FALSE ]
    ELSE IF hb = ChH
    THEN [ ctl |-> [ ctl EXCEPT !.halt = 2 ], rx |-> << hb >>, tx |-> << >>,
           ret |-> TRUE ]
    ELSE [ ctl |-> ctl, rx |-> << hb >>, tx |-> << FrameI >>, ret |-> FALSE ]

\* oc_get_halt on byte hb of the link (0: nothing to read)
oc_get_halt_body(ctl, hb) ==
    IF hb = 0 THEN [ ctl |-> ctl, rx |-> << >>, tx |-> << >>, ret |-> FALSE ]
    ELSE IF hb = ChH
    THEN [ ctl |-> [ ctl EXCEPT !.halt = 2 ], rx |-> << hb >>, tx |-> << >>,
           ret |-> TRUE ]
    ELSE [ ctl |-> ctl, rx |-> << hb >>,
           tx |-> IF hb \in {Chc, Chd, Chl, Chs, Chx} THEN << FrameI >> ELSE << >>,
           ret |-> FALSE ]

Remember(log, kind) ==
    LET l == Append(log, kind)
    IN  IF Len(l) > Window THEN SubSeq(l, 2, Len(l)) ELSE l

\* the end of a status tick: oc_get_halt, and the reschedule
FinishSvc(ctl, rx, tx0, hb) ==
    LET h == oc_get_halt_body(ctl, hb)
    IN  /\ oc_ctl' = h.ctl
        /\ obs' = Obs("oc_svc", rx \o h.rx, tx0 \o h.tx, NoCmd, TRUE)
        /\ queued' = TRUE
        /\ pc' = "idle"
        /\ polls' = 0

\* a status tick that sends the 'B' frame as well
StatusTickFrames_WithB(A, D, mm, ctl) == << FrameB(A, D, mm), FrameU(A, D, mm, ctl) >>

\* the display frames of a status tick: oc_send_all
StatusTickFrames(A, D, mm, ctl) == << FrameU(A, D, mm, ctl) >>

\* ind: oc_ctl.ind_addr; hb: the byte oc_get_halt finds; wf: writing 'R' fails
oc_svc(mm, ind, hb, wf, junk) ==
    /\ pc = "idle"
    /\ queued
    /\ IF ~oc_ldsc.rcve
       THEN /\ queued' = FALSE
            /\ obs' = Obs("oc_svc", << >>, << >>, NoCmd, FALSE)
            /\ UNCHANGED << oc_ctl, elapsed, pc, polls, tickLog >>
       ELSE IF elapsed < OC_INTERVAL
       THEN /\ queued' = TRUE
            /\ obs' = Obs("oc_svc", << >>, << >>, NoCmd, FALSE)
            /\ UNCHANGED << oc_ctl, elapsed, pc, polls, tickLog >>
       ELSE LET ctl0 == SvcIndData(oc_ctl, cpu_model, ind)
                A == SvcAddr(ctl0, cpu_model, junk)
                D == SvcData(ctl0, cpu_model, junk)
            IN  /\ elapsed' = 0
                /\ IF UpdDue(ctl0)
                   THEN LET ctl1 == [ ctl0 EXCEPT !.c_upd = 0 ]
                            all == StatusTickFrames(A, D, mm, ctl1)
                        IN  IF RotDue(ctl1)
                            THEN LET ctl2 == [ ctl1 EXCEPT !.c_rot = 0 ]
                                 IN  /\ tickLog' = Remember(tickLog, "UR")
                                     /\ IF Rotary(cpu_model) /\ ~wf
                                        THEN \* blocked in oc_get_rotary
                                             /\ oc_ctl' = ctl2
                                             /\ obs' = Obs("oc_svc", << >>,
                                                   all \o << FrameR >>, NoCmd, FALSE)
                                             /\ queued' = FALSE
                                             /\ pc' = "svc_rot"
                                             /\ polls' = 0
                                        ELSE FinishSvc(ctl2, << >>, all, hb)
                            ELSE /\ tickLog' = Remember(tickLog, "U")
                                 /\ FinishSvc([ ctl1 EXCEPT !.c_rot = @ + 1 ],
                                              << >>, all, hb)
                   ELSE /\ tickLog' = Remember(tickLog, "B")
                        /\ oc_ctl' = [ ctl0 EXCEPT !.c_upd = @ + 1 ]
                        /\ obs' = Obs("oc_svc", << >>, << FrameB(A, D, mm) >>,
                                      NoCmd, TRUE)
                        /\ queued' = TRUE
                        /\ UNCHANGED << pc, polls >>
    /\ UNCHANGED << ptvars, kbvars, cpu_model, MEMSIZE, oc_ldsc, stop_cpu, nincr >>

\* oc_get_rotary stores the answer to 'R'
StoreRotary(ctl, m, b) ==
    IF m = "MOD_1145" THEN [ ctl EXCEPT !.S[INP3] = b ]
    ELSE [ ctl EXCEPT !.S[INP5] = b ]

\* the console answers the 'R' of a tick with byte b
SvcRotaryReply(b, hb) ==
    /\ pc = "svc_rot"
    /\ FinishSvc(StoreRotary(oc_ctl, cpu_model, b), obs.rx \o << b >>, obs.tx, hb)
    /\ UNCHANGED << ptvars, kbvars, cpu_model, MEMSIZE, oc_ldsc, elapsed, stop_cpu, nincr, tickLog >>

(* ------------------------------------------------------------------ *)
(* The senders and queries, called by the cpu simulator                *)
(* ------------------------------------------------------------------ *)
\* a sender without the test of oc_ldsc.rcve
Sent_NoCheck(frame) == << frame >>

\* what a sender writes: nothing while the link is not active
Sent(frame) == IF ~oc_ldsc.rcve THEN << >> ELSE << frame >>

Sender(op, frame) ==
    /\ pc = "idle"
    /\ obs' = Obs(op, << >>, Sent(frame), NoCmd, FALSE)
    /\ UNCHANGED << ptvars, kbvars, cpu_model, MEMSIZE, oc_ldsc, oc_ctl, elapsed, queued, stop_cpu,
                    pc, polls, nincr, tickLog >>

oc_send_address(A, mm) == Sender("oc_send_address", FrameA(A, mm))
oc_send_data(D) == Sender("oc_send_data", FrameD(D))
oc_send_address_data(A, D, mm) == Sender("oc_send_address_data", FrameB(A, D, mm))
oc_send_all(A, D, mm) == Sender("oc_send_all", FrameU(A, D, mm, oc_ctl))
oc_send_status == Sender("oc_send_status", FrameF(oc_ctl))
oc_toggle_ack(mask, junk) == Sender("oc_toggle_ack", FrameAck(cpu_model, mask, junk))
oc_toggle_clear == Sender("oc_toggle_clear", FrameI)

\* oc_get_swr and oc_get_rotary called on their own; wf: the write fails
oc_get_swr(wf) ==
    /\ pc = "idle"
    /\ IF ~oc_ldsc.rcve \/ wf
       THEN /\ obs' = Obs("oc_get_swr", << >>, << >>, NoCmd, FALSE)
            /\ UNCHANGED << pc, polls >>
       ELSE /\ obs' = Obs("oc_get_swr", << >>, << FrameQ >>, NoCmd, FALSE)
            /\ pc' = "host_swr"
            /\ polls' = 0
    /\ UNCHANGED << ptvars, kbvars, cpu_model, MEMSIZE, oc_ldsc, oc_ctl, elapsed, queued, stop_cpu,
                    nincr, tickLog >>

oc_get_rotary(wf) ==
    /\ pc = "idle"
    /\ IF ~oc_ldsc.rcve \/ ~Rotary(cpu_model) \/ wf
       THEN /\ obs' = Obs("oc_get_rotary", << >>, << >>, NoCmd, FALSE)
            /\ UNCHANGED << pc, polls >>
       ELSE /\ obs' = Obs("oc_get_rotary", << >>, << FrameR >>, NoCmd, FALSE)
            /\ pc' = "host_rot"
            /\ polls' = 0
    /\ UNCHANGED << ptvars, kbvars, cpu_model, MEMSIZE, oc_ldsc, oc_ctl, elapsed, queued, stop_cpu,
                    nincr, tickLog >>

\* the console answers a query made on its own
HostSwrReply(s) ==
    /\ pc = "host_swr"
    /\ oc_ctl' = [ oc_ctl EXCEPT !.S = s ]
    /\ obs' = Obs("oc_get_swr", SnapBytes(s), obs.tx, NoCmd, TRUE)
    /\ pc' = "idle"
    /\ polls' = 0
    /\ UNCHANGED << ptvars, kbvars, cpu_model, MEMSIZE, oc_ldsc, elapsed, queued, stop_cpu, nincr,
                    tickLog >>

HostRotaryReply(b) ==
    /\ pc = "host_rot"
    /\ oc_ctl' = StoreRotary(oc_ctl, cpu_model, b)
    /\ obs' = Obs("oc_get_rotary", << b >>, obs.tx, NoCmd, TRUE)
    /\ pc' = "idle"
    /\ polls' = 0
    /\ UNCHANGED << ptvars, kbvars, cpu_model, MEMSIZE, oc_ldsc, elapsed, queued, stop_cpu, nincr,
                    tickLog >>

oc_get_halt(hb) ==
    /\ pc = "idle"
    /\ LET h == IF ~oc_ldsc.rcve
                THEN [ ctl |-> oc_ctl, rx |-> << >>, tx |-> << >>, ret |-> FALSE ]
                ELSE oc_get_halt_body(oc_ctl, hb)
       IN  /\ oc_ctl' = h.ctl
           /\ obs' = Obs("oc_get_halt", h.rx, h.tx, NoCmd, h.ret)
    /\ UNCHANGED << ptvars, kbvars, cpu_model, MEMSIZE, oc_ldsc, elapsed, queued, stop_cpu, pc,
                    polls, nincr, tickLog >>

(* ------------------------------------------------------------------ *)
(* The status producers called by the cpu simulator                    *)
(* ------------------------------------------------------------------ *)
oc_mmu(mm) ==
    /\ pc = "idle"
    /\ oc_ctl' = MmuCtl(oc_ctl, cpu_model, mm)
    /\ obs' = Obs("oc_mmu", << >>, << >>, NoCmd, FALSE)
    /\ UNCHANGED << ptvars, kbvars, cpu_model, MEMSIZE, oc_ldsc, elapsed, queued, stop_cpu, pc,
                    polls, nincr, tickLog >>

oc_ringprot(value) ==
    /\ pc = "idle"
    /\ oc_ctl' = RingCtl(oc_ctl, cpu_model, value)
    /\ obs' = Obs("oc_ringprot", << >>, << >>, NoCmd, FALSE)
    /\ UNCHANGED << ptvars, kbvars, cpu_model, MEMSIZE, oc_ldsc, elapsed, queued, stop_cpu, pc,
                    polls, nincr, tickLog >>

(* ------------------------------------------------------------------ *)
(* Specifications                                                      *)
(* ------------------------------------------------------------------ *)
\* MMU states tried with the console commands and the ticks
MMUSome == { [ mme |-> FALSE, m22e |-> FALSE ], [ mme |-> TRUE, m22e |-> TRUE ] }
MMUOff == { [ mme |-> FALSE, m22e |-> FALSE ] }
\* bytes oc_get_halt may find
HaltBytes == {0, ChH, Chx}
\* display values and acknowledge masks the cpu simulator passes
HostAddrs == {ARegs.PRGPA}
\* addresses of 16, 18 and 22 bits passed where the frames are the subject
FrameAddrs == {1024, 196882, ARegs.PRGPA}
HostData == {DRegs.SHFR}
AckMasks == {ACK_START}

\* command bytes tried where the command reader is not the subject
FewCmdBytes == {ChH, Chl, 0}

\* The console state machine in one session: attach and the command reader.
NextPanel ==
    \/ \E wfq \in BOOLEAN, mm \in MMUOff : oc_attach("ok", FALSE, wfq, mm)
    \/ \E s \in AttachSnaps, mm \in MMUOff : AttachSwrReply(s, mm)
    \/ \E c \in CmdBytes, mm \in MMUOff, wf \in BOOLEAN, junk \in JunkOf(cpu_model) :
          oc_get_console(c, mm, wf, junk)
    \/ \E s \in AddrSnaps \cup DataSnaps, mm \in MMUOff, junk \in JunkOf(cpu_model) :
          ConsoleSwrReply(s, mm, junk)

SpecPanel == Init /\ [][NextPanel]_vars

\* The update scheduler: attach, reset, the host clock, the ticks, detach.
NextSched ==
    \/ \E res \in AttachResults, wfc, wfq \in BOOLEAN, mm \in MMUOff :
          oc_attach(res, wfc, wfq, mm)
    \/ \E s \in KnobSnaps, mm \in MMUOff : AttachSwrReply(s, mm)
    \/ oc_detach
    \/ oc_reset
    \/ HostTime
    \/ \E mm \in MMUOff, ind \in BOOLEAN, hb \in HaltBytes, wf \in BOOLEAN,
          junk \in JunkOf(cpu_model) : oc_svc(mm, ind, hb, wf, junk)
    \/ \E b \in RotaryBytes, hb \in HaltBytes : SvcRotaryReply(b, hb)
    \/ PollTimeout

SpecSched == Init /\ [][NextSched]_vars

\* Every entry point of the link, from the cpu simulator and the framework,
\* at one instant of host time: a tick falls inside the interval unless it is
\* the first after an attach that left oc_ctl.resched unset.
NextLink ==
    \/ \E res \in AttachResults, wfc, wfq \in BOOLEAN, mm \in MMUOff :
          oc_attach(res, wfc, wfq, mm)
    \/ \E s \in KnobSnaps, mm \in MMUOff : AttachSwrReply(s, mm)
    \/ oc_detach
    \/ oc_reset
    \/ \E c \in FewCmdBytes, mm \in MMUOff, wf \in BOOLEAN, junk \in JunkOf(cpu_model) :
          oc_get_console(c, mm, wf, junk)
    \/ \E s \in DataSnaps, mm \in MMUOff, junk \in JunkOf(cpu_model) :
          ConsoleSwrReply(s, mm, junk)
    \/ PollTimeout
    \/ \E mm \in MMUOff, ind \in BOOLEAN, hb \in HaltBytes, wf \in BOOLEAN,
          junk \in JunkOf(cpu_model) : oc_svc(mm, ind, hb, wf, junk)
    \/ \E A \in HostAddrs, mm \in MMUSome : oc_send_address(A, mm)
    \/ \E D \in HostData : oc_send_data(D)
    \/ \E A \in HostAddrs, D \in HostData, mm \in MMUSome :
          oc_send_address_data(A, D, mm)
    \/ \E A \in HostAddrs, D \in HostData, mm \in MMUSome : oc_send_all(A, D, mm)
    \/ oc_send_status
    \/ \E mask \in AckMasks, junk \in JunkOf(cpu_model) : oc_toggle_ack(mask, junk)
    \/ oc_toggle_clear
    \/ \E wf \in BOOLEAN : oc_get_swr(wf)
    \/ \E wf \in BOOLEAN : oc_get_rotary(wf)
    \/ \E s \in DataSnaps : HostSwrReply(s)
    \/ \E b \in RotaryBytes : HostRotaryReply(b)
    \/ \E hb \in HaltBytes : oc_get_halt(hb)

SpecLink == Init /\ [][NextLink]_vars

\* switch positions tried where the status bits are the subject
StatusSnaps == { Snapshot(1024, 0, 0, 0), Snapshot(131072, 0, 0, 0) }
StatusCmdBytes == {Chl, Chx, Chc}
Modes == {MD_KER, MD_SUP, MD_UND, MD_USR}

\* The command line: the panel's commands as oc_read_line_p hands them on.
LineSnaps == { Snapshot(1024, 0, 0, 0), Snapshot(59904, 0, 0, 0),
               Snapshot(131072, 0, 0, 0) }

NextLine ==
    \/ \E mm \in MMUOff : oc_attach("ok", FALSE, FALSE, mm)
    \/ \E s \in AttachSnaps, mm \in MMUOff : AttachSwrReply(s, mm)
    \/ \E c \in CmdBytes, mm \in MMUOff, wf \in BOOLEAN, junk \in JunkOf(cpu_model) :
          oc_get_console(c, mm, wf, junk)
    \/ \E s \in LineSnaps, mm \in MMUOff, junk \in JunkOf(cpu_model) :
          ConsoleSwrReply(s, mm, junk)
    \/ oc_read_line_p

SpecLine == Init /\ [][NextLine]_vars

\* The display: ticks with the knobs in several positions, memory
\* management off and on, and the rotary query made by the cpu simulator.
DialSnaps == { Snapshot(1024, 0, 0, 0), Snapshot(1024, 52, 0, 11),
               Snapshot(1024, 16, 0, 30), Snapshot(1024, 120, 0, 18) }
DialBytes == {20, 38}

NextKnobs ==
    \/ \E mm \in MMUOff : oc_attach("ok", FALSE, FALSE, mm)
    \/ \E s \in DialSnaps, mm \in MMUOff : AttachSwrReply(s, mm)
    \/ oc_reset
    \/ HostTime
    \/ \E mm \in MMUSome, ind \in BOOLEAN, wf \in BOOLEAN, junk \in JunkOf(cpu_model) :
          oc_svc(mm, ind, 0, wf, junk)
    \/ \E b \in DialBytes : SvcRotaryReply(b, 0)
    \/ \E wf \in BOOLEAN : oc_get_rotary(wf)
    \/ \E b \in DialBytes : HostRotaryReply(b)

SpecKnobs == Init /\ [][NextKnobs]_vars

\* The HALT poll: the poll of the scheduler and of the cpu simulator next to
\* the command reader on one link, with every kind of byte to find.
PollBytes == {0, ChH, ChE, Chc, Chd, Chl, Chs, Chx, ChStray}
PollCmdBytes == {ChE, Chl, Chx}
TickBytes == {0, ChH, ChE, Chx}

NextPoll ==
    \/ \E mm \in MMUOff : oc_attach("ok", FALSE, FALSE, mm)
    \/ \E mm \in MMUOff : AttachSwrReply(Snapshot(1024, 0, 0, 0), mm)
    \/ oc_reset
    \/ HostTime
    \/ \E hb \in TickBytes, junk \in JunkOf(cpu_model) :
          oc_svc([ mme |-> FALSE, m22e |-> FALSE ], FALSE, hb, FALSE, junk)
    \/ \E hb \in TickBytes : SvcRotaryReply(20, hb)
    \/ \E c \in PollCmdBytes, junk \in JunkOf(cpu_model) :
          oc_get_console(c, [ mme |-> FALSE, m22e |-> FALSE ], FALSE, junk)
    \/ \E junk \in JunkOf(cpu_model) :
          ConsoleSwrReply(Snapshot(1024, 0, 0, 0), [ mme |-> FALSE, m22e |-> FALSE ], junk)
    \/ \E hb \in PollBytes : oc_get_halt(hb)

SpecPoll == Init /\ [][NextPoll]_vars

\* The halt mode: every command of the panel, the polls and the ticks, and
\* attach with the HALT switch up and down.
HaltSnaps == { Snapshot(1024, 0, 0, 0), Snapshot(1280, 0, 0, 65) }
HaltPollBytes == {ChH, ChE, Chx}
HaltTickBytes == {0, ChH}

NextHalt ==
    \/ \E mm \in MMUOff : oc_attach("ok", FALSE, FALSE, mm)
    \/ \E s \in HaltSnaps, mm \in MMUOff : AttachSwrReply(s, mm)
    \/ oc_reset
    \/ HostTime
    \/ \E hb \in HaltTickBytes, junk \in JunkOf(cpu_model) :
          oc_svc([ mme |-> FALSE, m22e |-> FALSE ], FALSE, hb, FALSE, junk)
    \/ \E hb \in HaltTickBytes : SvcRotaryReply(20, hb)
    \/ \E c \in CmdBytes, junk \in JunkOf(cpu_model) :
          oc_get_console(c, [ mme |-> FALSE, m22e |-> FALSE ], FALSE, junk)
    \/ \E junk \in JunkOf(cpu_model) :
          ConsoleSwrReply(Snapshot(1024, 0, 0, 0), [ mme |-> FALSE, m22e |-> FALSE ], junk)
    \/ \E hb \in HaltPollBytes : oc_get_halt(hb)

SpecHalt == Init /\ [][NextHalt]_vars

(* ------------------------------------------------------------------ *)
(* PC11 paper tape reader and punch (pdp11_pt.c)                       *)
(* ------------------------------------------------------------------ *)
\* control/status register bits
CSR_GO == 1
CSR_IE == 64
CSR_DONE == 128
CSR_BUSY == 2048
CSR_ERR == 32768
\* the bits of either CSR a write can change
PTRCSR_RW == CSR_IE
PTPCSR_RW == CSR_IE

\* a & ~m
BitClr(a, m) == a - BitAnd(a, m)
\* IORETURN (f, v): the status v when the stop flag f is set, else SCPE_OK
IORETURN(f, v) == IF f # 0 THEN v ELSE "SCPE_OK"
SET_INT(dv) == int_req \cup {dv}
CLR_INT(dv) == int_req \ {dv}

\* frames punched by one attach before the model stops following the tape
MaxPunch == 2
\* the frames of the file attached to the reader
Tape == << 65, 66 >>
\* a write of data to the CSR keeps the request although interrupts are
\* being disabled
WrInt_KeepOnDisable(dv, csr, data) ==
    IF BitAnd(data, CSR_IE) # 0 /\ BitAnd(csr, CSR_IE) = 0
                                /\ BitAnd(csr, CSR_ERR + CSR_DONE) # 0
    THEN SET_INT(dv)
    ELSE int_req

\* ptr_wr / ptp_wr, CSR case: the interrupt request after the IE bit of data
\* is looked at
WrInt(dv, csr, data) ==
    IF BitAnd(data, CSR_IE) = 0
    THEN CLR_INT(dv)
    ELSE IF BitAnd(csr, CSR_IE) = 0 /\ BitAnd(csr, CSR_ERR + CSR_DONE) # 0
         THEN SET_INT(dv)
         ELSE int_req

\* getc at the reader's position: the frame read or EOF, and what feof says
\* afterwards; EOF without feof is a read error of the host system
EOF == 0 - 1
Getc(ioerr) ==
    IF ioerr THEN [ temp |-> EOF, feof |-> FALSE ]
    ELSE IF ptr_unit.pos >= Len(Tape) THEN [ temp |-> EOF, feof |-> TRUE ]
    ELSE [ temp |-> Tape[ptr_unit.pos + 1], feof |-> FALSE ]

\* every end of file is passed over in silence
ptr_svc_status_NeverStops(att, stopioe, got) ==
    IF ~att THEN IORETURN(stopioe, "SCPE_UNATT")
    ELSE IF got.temp = EOF /\ ~got.feof THEN "SCPE_IOERR"
    ELSE "SCPE_OK"

\* ptr_svc: the status returned
ptr_svc_status(att, stopioe, got) ==
    IF ~att THEN IORETURN(stopioe, "SCPE_UNATT")
    ELSE IF got.temp = EOF
         THEN IF got.feof /\ stopioe = 0 THEN "SCPE_OK" ELSE "SCPE_IOERR"
         ELSE "SCPE_OK"

\* a read of the CSR changes nothing; a read of the buffer takes the frame
ptr_rd(PA) ==
    /\ IF Shr(PA, 1) % 2 = 0
       THEN UNCHANGED << ptr_csr, int_req >>
       ELSE /\ ptr_csr' = BitClr(ptr_csr, CSR_DONE)
            /\ int_req' = CLR_INT("PTR")
    /\ UNCHANGED << opvars, kbvars, ptobs, ptp_csr, ptr_unit, ptp_unit, ptr_stopioe,
                    ptp_stopioe >>

ptr_wr(data, PA) ==
    /\ IF Shr(PA, 1) % 2 = 1 \/ PA % 2 = 1
       THEN UNCHANGED << ptr_csr, int_req, ptr_unit >>
       ELSE LET go == BitAnd(data, CSR_GO) # 0
                csr1 == IF go THEN BitOr(BitClr(ptr_csr, CSR_DONE), CSR_BUSY)
                              ELSE ptr_csr
            IN  /\ int_req' = IF go THEN WrInt("PTR", ptr_csr, data) \ {"PTR"}
                                    ELSE WrInt("PTR", ptr_csr, data)
                /\ ptr_unit' = [ ptr_unit EXCEPT !.active = go \/ @ ]
                /\ ptr_csr' = BitOr(BitClr(csr1, PTRCSR_RW), BitAnd(data, PTRCSR_RW))
    /\ UNCHANGED << opvars, kbvars, ptobs, ptp_csr, ptp_unit, ptr_stopioe, ptp_stopioe >>

\* the reader's event fires
ptr_svc(ioerr) ==
    /\ ptr_unit.active
    /\ LET csr1 == BitClr(BitOr(ptr_csr, CSR_ERR), CSR_BUSY)
           got == IF ptr_unit.att THEN Getc(ioerr) ELSE [ temp |-> EOF, feof |-> FALSE ]
           read == ptr_unit.att /\ got.temp # EOF
       IN  /\ int_req' = IF BitAnd(csr1, CSR_IE) # 0 THEN SET_INT("PTR") ELSE int_req
           /\ ptr_csr' = IF read THEN BitClr(BitOr(csr1, CSR_DONE), CSR_ERR) ELSE csr1
           /\ ptr_unit' = IF read
                          THEN [ ptr_unit EXCEPT !.active = FALSE, !.buf = got.temp,
                                                 !.pos = @ + 1 ]
                          ELSE [ ptr_unit EXCEPT !.active = FALSE ]
           /\ ptobs' = PtObs("ptr_svc",
                             ptr_svc_status(ptr_unit.att, ptr_stopioe, got), got)
    /\ UNCHANGED << opvars, kbvars, ptp_csr, ptp_unit, ptr_stopioe, ptp_stopioe >>

ptr_reset ==
    /\ ptr_unit' = [ ptr_unit EXCEPT !.buf = 0, !.active = FALSE ]
    /\ ptr_csr' = IF ptr_unit.att THEN 0 ELSE CSR_ERR
    /\ int_req' = CLR_INT("PTR")
    /\ UNCHANGED << opvars, kbvars, ptobs, ptp_csr, ptp_unit, ptr_stopioe, ptp_stopioe >>

\* ok: attach_unit opened the file; the tape then stands at its first frame
ptr_attach(ok) ==
    /\ ptr_unit' = IF ok THEN [ ptr_unit EXCEPT !.att = TRUE, !.pos = 0 ] ELSE ptr_unit
    /\ ptr_csr' = IF ok \/ ptr_unit.att THEN BitClr(ptr_csr, CSR_ERR)
                                        ELSE BitOr(ptr_csr, CSR_ERR)
    /\ UNCHANGED << opvars, kbvars, ptobs, ptp_csr, int_req, ptp_unit, ptr_stopioe,
                    ptp_stopioe >>

ptr_detach ==
    /\ ptr_csr' = BitOr(ptr_csr, CSR_ERR)
    /\ ptr_unit' = [ ptr_unit EXCEPT !.att = FALSE ]
    /\ UNCHANGED << opvars, kbvars, ptobs, ptp_csr, int_req, ptp_unit, ptr_stopioe,
                    ptp_stopioe >>

\* a read of either register of the punch changes nothing
ptp_rd(PA) ==
    /\ PA \in 0 .. 3
    /\ UNCHANGED << opvars, kbvars, ptobs, ptr_csr, ptp_csr, int_req, ptr_unit, ptp_unit,
                    ptr_stopioe, ptp_stopioe >>

ptp_wr(data, PA) ==
    /\ IF Shr(PA, 1) % 2 = 0
       THEN IF PA % 2 = 1
            THEN UNCHANGED << ptp_csr, int_req, ptp_unit >>
            ELSE /\ int_req' = WrInt("PTP", ptp_csr, data)
                 /\ ptp_csr' = BitOr(BitClr(ptp_csr, PTPCSR_RW), BitAnd(data, PTPCSR_RW))
                 /\ UNCHANGED ptp_unit
       ELSE /\ ptp_unit' = [ ptp_unit EXCEPT
                               !.buf = IF PA % 2 = 0 THEN BitAnd(data, 255) ELSE @,
                               !.active = TRUE ]
            /\ ptp_csr' = BitClr(ptp_csr, CSR_DONE)
            /\ int_req' = CLR_INT("PTP")
    /\ UNCHANGED << opvars, kbvars, ptobs, ptr_csr, ptr_unit, ptr_stopioe, ptp_stopioe >>

\* the punch's event fires
ptp_svc(ioerr) ==
    /\ ptp_unit.active
    /\ ptp_unit.pos < MaxPunch
    /\ LET csr1 == BitOr(ptp_csr, CSR_ERR + CSR_DONE)
           punched == ptp_unit.att /\ ~ioerr
       IN  /\ int_req' = IF BitAnd(csr1, CSR_IE) # 0 THEN SET_INT("PTP") ELSE int_req
           /\ ptp_csr' = IF punched THEN BitClr(csr1, CSR_ERR) ELSE csr1
           /\ ptp_unit' = IF punched
                          THEN [ ptp_unit EXCEPT !.active = FALSE, !.pos = @ + 1 ]
                          ELSE [ ptp_unit EXCEPT !.active = FALSE ]
           /\ ptobs' = PtObs("ptp_svc",
                             IF ~ptp_unit.att THEN IORETURN(ptp_stopioe, "SCPE_UNATT")
                             ELSE IF ioerr THEN "SCPE_IOERR" ELSE "SCPE_OK",
                             ptp_unit.buf)
    /\ UNCHANGED << opvars, kbvars, ptr_csr, ptr_unit, ptr_stopioe, ptp_stopioe >>

ptp_reset ==
    /\ ptp_unit' = [ ptp_unit EXCEPT !.buf = 0, !.active = FALSE ]
    /\ ptp_csr' = IF ptp_unit.att THEN CSR_DONE ELSE CSR_DONE + CSR_ERR
    /\ int_req' = CLR_INT("PTP")
    /\ UNCHANGED << opvars, kbvars, ptobs, ptr_csr, ptr_unit, ptr_stopioe, ptp_stopioe >>

\* ok: attach_unit opened the file; the tape then stands at its first frame
ptp_attach(ok) ==
    /\ ptp_unit' = IF ok THEN [ ptp_unit EXCEPT !.att = TRUE, !.pos = 0 ] ELSE ptp_unit
    /\ ptp_csr' = IF ok \/ ptp_unit.att THEN BitClr(ptp_csr, CSR_ERR)
                                        ELSE BitOr(ptp_csr, CSR_ERR)
    /\ UNCHANGED << opvars, kbvars, ptobs, ptr_csr, int_req, ptr_unit, ptr_stopioe,
                    ptp_stopioe >>

ptp_detach ==
    /\ ptp_csr' = BitOr(ptp_csr, CSR_ERR)
    /\ ptp_unit' = [ ptp_unit EXCEPT !.att = FALSE ]
    /\ UNCHANGED << opvars, kbvars, ptobs, ptr_csr, int_req, ptr_unit, ptr_stopioe,
                    ptp_stopioe >>

\* the STOP_IOE registers are set from the simulator's command line
deposit_stopioe(r, p) ==
    /\ ptr_stopioe' = r
    /\ ptp_stopioe' = p
    /\ UNCHANGED << opvars, kbvars, ptobs, ptr_csr, ptp_csr, int_req, ptr_unit, ptp_unit >>

\* Both devices on one bus. PA is the offset of the bus address within the
\* device's four bytes. The words written carry the IE bit (bit 6) and the GO
\* bit (bit 0); 320 has bit 8 as well, outside the frame the punch keeps.
NextTape ==
    \/ \E PA \in 0 .. 3 : ptr_rd(PA)
    \/ \E data \in { 0, CSR_IE, CSR_IE + CSR_GO }, PA \in 0 .. 3 : ptr_wr(data, PA)
    \/ \E ioerr \in BOOLEAN : ptr_svc(ioerr)
    \/ ptr_reset
    \/ \E ok \in BOOLEAN : ptr_attach(ok)
    \/ ptr_detach
    \/ \E PA \in 0 .. 3 : ptp_rd(PA)
    \/ \E data \in { 0, 320 }, PA \in 0 .. 3 : ptp_wr(data, PA)
    \/ \E ioerr \in BOOLEAN : ptp_svc(ioerr)
    \/ ptp_reset
    \/ \E ok \in BOOLEAN : ptp_attach(ok)
    \/ ptp_detach

\* The reader alone, with the stop flags. The last word written tries the
\* read-only bits ERR and DONE.
NextReader ==
    \/ \E PA \in 0 .. 3 : ptr_rd(PA)
    \/ \E data \in { 0, CSR_IE, CSR_GO, CSR_IE + CSR_GO, CSR_ERR + CSR_DONE + CSR_IE },
          PA \in 0 .. 3 : ptr_wr(data, PA)
    \/ \E ioerr \in BOOLEAN : ptr_svc(ioerr)
    \/ ptr_reset
    \/ \E ok \in BOOLEAN : ptr_attach(ok)
    \/ ptr_detach
    \/ \E r \in {0, 1}, p \in {0, 1} : deposit_stopioe(r, p)

\* the console plays no part: one processor model and one memory size
InitTape == Init /\ cpu_model = "MOD_1170" /\ MEMSIZE = 32768

SpecTape == InitTape /\ [][NextTape]_vars

SpecReader == InitTape /\ [][NextReader]_vars

(* ------------------------------------------------------------------ *)
(* oc_read_line_p: keystrokes                                          *)
(* ------------------------------------------------------------------ *)
ChBS == 8
ChLF == 10
ChCR == 13

\* oc_read_line_p after the keyboard loop: the first CR or LF of the buffer, or
\* its last cell, becomes the end of the string; white space in front is
\* skipped, and a line that begins with ';' is emptied
EndLine(buf) ==
    LET ends == { i \in 0 .. (CBUFSIZE - 1) :
                    buf[i] \in { ChLF, ChCR } \/ i = CBUFSIZE - 1 }
        e == CHOOSE i \in ends : \A j \in ends : i <= j
        cut == [ buf EXCEPT ![e] = 0 ]
        text == { i \in 0 .. e : cut[i] \notin { 32, 9, 10, 11, 12, 13 } }
        first == CHOOSE i \in text : \A j \in text : i <= j
    IN  IF cut[first] = ChSemi THEN [ cut EXCEPT ![first] = 0 ] ELSE cut

\* One turn of the keyboard loop in which the console had no command and the
\* keyboard had key_entry. A cell no keystroke was stored in holds whatever
\* the caller left there: stale. The echo goes to the terminal. A line
\* terminator ends the call: the line is in cbuf, and the next call starts
\* at cptr again.
KeyEntry(key_entry, stale) ==
    /\ pc = "idle"
    /\ ~( obs.op = "oc_get_console" /\ obs.ret )
    /\ tptr \in Cells
    /\ LET attptr == IF cbuf[tptr] = Unset THEN stale ELSE cbuf[tptr]
           atcptr == IF tptr = 0 THEN attptr ELSE cbuf[0]
           stored == [ cbuf EXCEPT ![tptr] = key_entry ]
       IN  IF key_entry = ChBS /\ attptr > atcptr
           THEN /\ tptr' = tptr - 1
                /\ UNCHANGED << cbuf, stop_cpu >>
           ELSE IF key_entry \in { ChLF, ChCR }
                THEN /\ cbuf' = EndLine(stored)
                     /\ tptr' = 0
                     /\ stop_cpu' = IF oc_ctl.halt = 1 THEN TRUE ELSE stop_cpu
                ELSE /\ cbuf' = stored
                     /\ tptr' = tptr + 1
                     /\ UNCHANGED stop_cpu
    /\ UNCHANGED << ptvars, cpu_model, MEMSIZE, oc_ldsc, oc_ctl, elapsed, queued,
                    pc, polls, nincr, obs, tickLog >>

\* keys: backspace, return, a letter and the comment character; what a cell
\* never written may hold: less or more than any key
NextKeys ==
    \/ \E mm \in MMUOff : oc_attach("ok", FALSE, FALSE, mm)
    \/ \E mm \in MMUOff : AttachSwrReply(Snapshot(1024, 0, 0, 0), mm)
    \/ \E c \in { 0, ChH, Chc }, mm \in MMUOff, junk \in JunkOf(cpu_model) :
          oc_get_console(c, mm, FALSE, junk)
    \/ oc_read_line_p
    \/ \E key_entry \in { ChBS, ChCR, ChA, ChSemi }, stale \in { 0, 127 } :
          KeyEntry(key_entry, stale)

SpecKeys == InitTape /\ [][NextKeys]_vars

\* The status bytes: their producers, the commands that flag an address
\* error, and the frames that carry them.
NextStatus ==
    \/ \E wfq \in BOOLEAN, mm \in MMUOff : oc_attach("ok", FALSE, wfq, mm)
    \/ \E s \in KnobSnaps, mm \in MMUOff : AttachSwrReply(s, mm)
    \/ oc_detach
    \/ \E c \in StatusCmdBytes, mm \in MMUOff, wf \in BOOLEAN, junk \in JunkOf(cpu_model) :
          oc_get_console(c, mm, wf, junk)
    \/ \E s \in StatusSnaps, mm \in MMUOff, junk \in JunkOf(cpu_model) :
          ConsoleSwrReply(s, mm, junk)
    \/ \E mm \in MMUStates : oc_mmu(mm)
    \/ \E value \in Modes : oc_ringprot(value)
    \/ oc_send_status

SpecStatus == Init /\ [][NextStatus]_vars

\* The frames: the senders of address, data and status under every MMU state.
NextFrames ==
    \/ \E wfq \in BOOLEAN, mm \in MMUOff : oc_attach("ok", FALSE, wfq, mm)
    \/ \E s \in KnobSnaps, mm \in MMUOff : AttachSwrReply(s, mm)
    \/ oc_detach
    \/ \E mm \in MMUStates : oc_mmu(mm)
    \/ \E A \in FrameAddrs, mm \in MMUStates : oc_send_address(A, mm)
    \/ \E D \in HostData : oc_send_data(D)
    \/ \E A \in FrameAddrs, D \in HostData, mm \in MMUStates :
          oc_send_address_data(A, D, mm)
    \/ \E A \in FrameAddrs, D \in HostData, mm \in MMUStates : oc_send_all(A, D, mm)
    \/ oc_send_status

SpecFrames == Init /\ [][NextFrames]_vars

\* The scheduler with the reply loops polling on for as long as they wait;
\* nothing obliges the console to answer.
SpecLive == Init /\ [][NextSched]_vars /\ WF_vars(PollTimeout)

(* ------------------------------------------------------------------ *)
(* Properties                                                          *)
(* ------------------------------------------------------------------ *)
Count(seq, kinds) == Cardinality({ i \in DOMAIN seq : seq[i] \in kinds })
AckFrames == { i \in DOMAIN obs.tx : obs.tx[i][1] = Chc /\ Len(obs.tx[i]) = 3 }

\* oc_get_console has returned TRUE for command byte c
Processed(c) ==
    /\ pc = "idle"
    /\ obs.op = "oc_get_console"
    /\ obs.ret
    /\ obs.rx # << >>
    /\ obs.rx[1] = c

\* a step in which oc_get_console runs the body of command c to its end
Completes(c) ==
    /\ oc_ldsc.rcve
    /\ pc' = "idle"
    /\ obs'.op = "oc_get_console" /\ obs'.ret /\ obs'.rx # << >> /\ obs'.rx[1] = c
    /\ \/ pc = "load_swr" /\ c = Chl
       \/ pc = "dep_swr" /\ c = Chd
       \/ /\ pc = "idle"
          /\ \E mm \in MMUStates, junk \in Junk \cup {0} :
                oc_get_console(c, mm, TRUE, junk)

\* the address mask of each supported model
ModelMask(m) ==
    CASE m \in {"MOD_1105", "MOD_1120"} -> 65535
      [] m \in {"MOD_1140", "MOD_1145"} -> 262143
      [] OTHER -> 4194303

\* the boot rom windows as documented: two in the low space, mirrored at
\* +0x3F0000 where 22-bit addresses are in use
DocBootRom(a, m) ==
    \/ (a >= 59904 /\ a < 60416)
    \/ (a >= 62976 /\ a < 63488)
    \/ /\ m = "MOD_1170"
       /\ \/ (a >= 4188672 /\ a < 4189184)
          \/ (a >= 4191744 /\ a < 4192256)

\* the address a deposit / examine is aimed at, from the state before it
Target(first) == IF first THEN oc_ctl.act_addr ELSE IncrAddr(oc_ctl.act_addr)

\* C1: over any 15 consecutive frame-emitting ticks exactly 3 send a status
\* frame ('U'), exactly 1 of them re-polls the rotary switches, and the
\* others send an address+data frame ('B') only.
C1_Ratio ==
    Len(tickLog) >= 15 =>
        LET w == SubSeq(tickLog, Len(tickLog) - 14, Len(tickLog))
        IN  /\ Count(w, {"U", "UR"}) = 3
            /\ Count(w, {"UR"}) = 1
            /\ Count(w, {"B"}) = 12

\* C2 as claimed: a continue command transmits no acknowledge frame, while
\* load-address, examine and deposit each transmit one.
C2_ContinueUnacknowledged ==
    /\ Processed(Chc) => AckFrames = {}
    /\ \A c \in {Chl, Chx, Chd} : Processed(c) => Cardinality(AckFrames) = 1

AckMaskOf(c) ==
    CASE c = Chc -> ACK_CONT [] c = Chl -> ACK_LOAD
      [] c = Chx -> ACK_EXAM [] OTHER -> ACK_DEPO

\* C2 amended: continue, load-address, examine and deposit each transmit
\* exactly one acknowledge frame ('c', port, mask), continue with mask CONT
\* in either halt state.
C2_EachAcknowledged ==
    \A c \in {Chc, Chl, Chx, Chd} :
        Processed(c) =>
            /\ Cardinality(AckFrames) = 1
            /\ \A i \in AckFrames : obs.tx[i][3] = AckMaskOf(c)

\* a continue in halt mode HaltDown and one outside it, both acknowledged
C2_Witness ==
    /\ Processed(Chc)
    /\ obs.out.text = "step"
    /\ \E i \in AckFrames : obs.tx[i] = << Chc, 50, ACK_CONT >>

\* C3: a deposit aimed at a boot rom window leaves act_addr, inv_addr and
\* the first-flags as they were, sends no address+data frame and yields the
\* boot rom comment only.
C3_RejectedUntouched ==
    [][ ( /\ Completes(Chd)
          /\ cpu_model \in Models
          /\ ~oc_ctl.inv_addr
          /\ DocBootRom(Target(oc_ctl.first_dep), cpu_model) )
        => ( /\ oc_ctl'.act_addr = oc_ctl.act_addr
             /\ oc_ctl'.inv_addr = oc_ctl.inv_addr
             /\ oc_ctl'.first_exam = oc_ctl.first_exam
             /\ oc_ctl'.first_dep = oc_ctl.first_dep
             /\ \A i \in DOMAIN obs'.tx : obs'.tx[i][1] # ChB
             /\ obs'.out.text = ";no deposit in boot rom range" ) ]_vars

\* C4: a deposit with a valid address is rejected as boot rom protected
\* exactly when its target lies in a documented window.
C4_RejectedIffInWindow ==
    ( Processed(Chd) /\ cpu_model \in Models /\ ~oc_ctl.inv_addr )
        => ( obs.out.text = ";no deposit in boot rom range"
               <=> DocBootRom(oc_ctl.act_addr, cpu_model) )

\* C5: act_addr stays within the address mask of the active model.
C5_AddrWithinMask ==
    ( oc_ldsc.rcve /\ cpu_model \in Models )
        => oc_ctl.act_addr <= ModelMask(cpu_model)

\* C6: 'H' sets halt mode 2 and 'E' halt mode 1 from any halt mode, 'E'
\* sends the clear-all-toggles frame, and neither touches act_addr,
\* inv_addr or the first-flags.
C6_HaltKey ==
    [][ /\ Completes(ChH) =>
            /\ oc_ctl'.halt = 2
            /\ oc_ctl' = [ oc_ctl EXCEPT !.halt = 2 ]
        /\ Completes(ChE) =>
            /\ oc_ctl'.halt = 1
            /\ \E i \in DOMAIN obs'.tx : obs'.tx[i] = FrameI
            /\ oc_ctl' = [ oc_ctl EXCEPT !.halt = 1 ] ]_vars

\* the HALT key released in halt mode HaltDown, with an address loaded
C6_Witness ==
    /\ Processed(ChE)
    /\ oc_ctl.halt = 1
    /\ oc_ctl.act_addr # 0
    /\ ~oc_ctl.first_exam

\* the console i/o entry points
IoOps ==
    { "oc_svc", "oc_get_console", "oc_send_address", "oc_send_data",
      "oc_send_address_data", "oc_send_all", "oc_send_status", "oc_get_swr",
      "oc_get_rotary", "oc_get_halt", "oc_toggle_ack", "oc_toggle_clear" }

C8_UnsupportedDormant ==
    cpu_model \notin Models =>
        /\ ~oc_ldsc.rcve
        /\ obs.op \in {"oc_svc", "oc_get_console"} => (obs.tx = << >> /\ obs.rx = << >>)

\* C9: a handler waiting for the reply to 'Q' or 'R' leaves the wait.
C9_WaitsEnd == (pc # "idle") ~> (pc = "idle")

\* the first flag an examine / deposit consults
FirstOf(c) == IF c = Chx THEN oc_ctl.first_exam ELSE oc_ctl.first_dep

\* C11: a repeated examine or deposit of an address outside the register
\* alias window, with old + 2 not beyond 0x3FFFFE, leaves act_addr at
\* old + 2 with bit 0 cleared, an even address.
C11_PlusTwoEven ==
    [][ \A c \in {Chx, Chd} :
          ( /\ Completes(c)
            /\ ~FirstOf(c)
            /\ ~InRegSpace(oc_ctl.act_addr)
            /\ oc_ctl.act_addr + 2 <= 4194302 )
          => /\ oc_ctl'.act_addr = 2 * ((oc_ctl.act_addr + 2) \div 2)
             /\ oc_ctl'.act_addr % 2 = 0 ]_vars

\* the second examine after a load-address of the odd address 0o2001
C11_Witness ==
    /\ Processed(Chx)
    /\ nincr = 1
    /\ oc_ctl.S = Snapshot(1025, 0, 0, 0)
    /\ obs.out = Cmd("examine", 1026, 0)

\* C12: a repeated examine or deposit of an address outside the register
\* alias window with old + 2 beyond 0x3FFFFE leaves act_addr at 0.
C12_WrapToZero ==
    [][ \A c \in {Chx, Chd} :
          ( /\ Completes(c)
            /\ ~FirstOf(c)
            /\ ~InRegSpace(oc_ctl.act_addr)
            /\ oc_ctl.act_addr + 2 > 4194302 )
          => oc_ctl'.act_addr = 0 ]_vars

\* the second examine after a load-address of 0x3FFFFE
C12_Witness ==
    /\ Processed(Chx)
    /\ nincr = 1
    /\ oc_ctl.S = Snapshot(4194302, 0, 0, 0)
    /\ obs.out = Cmd("examine", 0, 0)

\* the bound of a model as documented: at or above the memory size and not
\* in the i/o page
OutOfBound(a, m, memsize) ==
    /\ a >= memsize
    /\ CASE m \in {"MOD_1105", "MOD_1120"} -> ~(a > 57343 /\ a < 65535)
         [] m \in {"MOD_1140", "MOD_1145"} -> ~(a > 253951 /\ a < 262143)
         [] OTHER -> ~(a > 4186111 /\ a < 4194303)

\* C13: an examine or deposit whose target (act_addr after the increment
\* rule) is out of the model's bound is rejected: inv_addr is set, the
\* pseudo-command is the comment ';address out of defined range'.
C13_OutOfBoundRejected ==
    [][ \A c \in {Chx, Chd} :
          ( /\ Completes(c)
            /\ cpu_model \in Models
            /\ OutOfBound(Target(FirstOf(c)), cpu_model, MEMSIZE) )
          => /\ oc_ctl'.inv_addr
             /\ obs'.out = Cmd(";address out of defined range", 0, 0) ]_vars

\* C14: an examine or deposit processed while inv_addr is set freezes the
\* cpu on the 11/05 and 11/20, sets the address error bit of port1 on the
\* 11/45 and 11/70 and shows it in the closing status frame, does neither
\* on the 11/40; it sends no 'A' or 'B' frame and keeps the first flags.
C14_InvalidAddress ==
    [][ \A c \in {Chx, Chd} :
          ( Completes(c) /\ cpu_model \in Models /\ oc_ctl.inv_addr )
          => /\ cpu_model \in {"MOD_1105", "MOD_1120"} =>
                   (stop_cpu' /\ oc_ctl'.port1 = oc_ctl.port1)
             /\ cpu_model = "MOD_1145" =>
                   /\ BitAnd(oc_ctl'.port1, FSTS_1145_ADRSERR) = FSTS_1145_ADRSERR
                   /\ stop_cpu' = stop_cpu
             /\ cpu_model = "MOD_1170" =>
                   /\ BitAnd(oc_ctl'.port1, FSTS_1170_ADRSERR) = FSTS_1170_ADRSERR
                   /\ stop_cpu' = stop_cpu
             /\ cpu_model = "MOD_1140" =>
                   (stop_cpu' = stop_cpu /\ oc_ctl'.port1 = oc_ctl.port1)
             /\ obs'.tx[Len(obs'.tx)] = << ChF, oc_ctl'.port1, oc_ctl'.port2 >>
             /\ \A i \in DOMAIN obs'.tx : obs'.tx[i][1] \notin {ChA, ChB}
             /\ oc_ctl'.first_exam = oc_ctl.first_exam
             /\ oc_ctl'.first_dep = oc_ctl.first_dep ]_vars

\* an examine on the 11/05 after a load-address above the memory
C14_Witness ==
    /\ Processed(Chx)
    /\ cpu_model = "MOD_1105"
    /\ oc_ctl.inv_addr
    /\ stop_cpu
    /\ obs.out = Cmd(";address out of defined range", 0, 0)

\* the two ring bits of port1, and the rest of it
RingBits(port1) == port1 % 4
Width(mm) == IF mm.mme /\ mm.m22e THEN 22 ELSE IF mm.mme THEN 18 ELSE 16
Has(port, flag) == BitAnd(port, flag) = flag

\* C15: on the 11/45 and 11/70 a call of oc_ringprot with any mode leaves
\* the ring bits of port1 at 00, 01 or 11, never 10, and changes nothing
\* else of port1 and nothing of port2.
C15_RingBits ==
    [][ \A value \in Modes :
          ( oc_ringprot(value) /\ cpu_model \in {"MOD_1145", "MOD_1170"} )
          => /\ RingBits(oc_ctl'.port1) \in {0, 1, 3}
             /\ RingBits(oc_ctl'.port1) # 2
             /\ oc_ctl'.port1 \div 4 = oc_ctl.port1 \div 4
             /\ oc_ctl'.port2 = oc_ctl.port2 ]_vars

\* SUPER shown on an 11/70 that has an address error and a width lit
C15_Witness ==
    /\ obs.op = "oc_ringprot"
    /\ cpu_model = "MOD_1170"
    /\ RingBits(oc_ctl.port1) = 1
    /\ Has(oc_ctl.port1, FSTS_1170_ADRSERR)
    /\ oc_ctl.port2 # 0

\* C16: oc_mmu takes the width 22 when both enables are on, 18 when only
\* MME is on and 16 otherwise; after the call the 11/70 has exactly the
\* width bit of port2 set that matches it, and the 11/40 has the VIRTUAL
\* bit of port1 set exactly when the width is 18.
C16_MmuWidth ==
    [][ \A mm \in MMUStates :
          oc_mmu(mm)
          => /\ cpu_model = "MOD_1170" =>
                   /\ Has(oc_ctl'.port2, FSTS_1170_16BIT) <=> Width(mm) = 16
                   /\ Has(oc_ctl'.port2, FSTS_1170_18BIT) <=> Width(mm) = 18
                   /\ Has(oc_ctl'.port2, FSTS_1170_22BIT) <=> Width(mm) = 22
             /\ cpu_model = "MOD_1140" =>
                   ( Has(oc_ctl'.port1, FSTS_1140_VIRTUAL) <=> Width(mm) = 18 ) ]_vars

\* the 11/70 switched to 22-bit mapping with USER shown
C16_Witness ==
    /\ obs.op = "oc_mmu"
    /\ cpu_model = "MOD_1170"
    /\ Has(oc_ctl.port2, FSTS_1170_22BIT)
    /\ ~Has(oc_ctl.port2, FSTS_1170_16BIT)
    /\ RingBits(oc_ctl.port1) = 3

\* a frame read back big-endian: three address bytes, two data bytes
DecodeAddr(f) == f[2] * 65536 + f[3] * 256 + f[4]
DecodeData(f) == f[5] * 256 + f[6]
\* the mask as documented
DocMask(mm) == IF ~mm.mme THEN 0 ELSE IF ~mm.m22e THEN 3 ELSE 63

\* the span of addresses a mask of the top byte lets through
MaskSpan(mm) == 65536 * (DocMask(mm) + 1)

\* a step of one of the three senders of an address, with its arguments
SendsAddr(A, D, mm) ==
    \/ obs'.op = "oc_send_address" /\ oc_send_address(A, mm)
    \/ obs'.op = "oc_send_address_data" /\ oc_send_address_data(A, D, mm)
    \/ obs'.op = "oc_send_all" /\ oc_send_all(A, D, mm)

\* a step of one of them on an active link of a supported model
AddrSenderStep ==
    /\ oc_ldsc.rcve
    /\ cpu_model \in Models
    /\ pc = "idle"
    /\ obs'.op \in {"oc_send_address", "oc_send_address_data", "oc_send_all"}

\* C17 as claimed: an address within the model's width and a data word,
\* sent in an 'A', 'B' or 'U' frame under any MMU mask and read back
\* big-endian, are the original address and data.
C17_RoundTrip ==
    [][ AddrSenderStep => \A A \in FrameAddrs, D \in HostData, mm \in MMUStates :
          ( SendsAddr(A, D, mm) /\ A <= ModelMask(cpu_model) )
          => /\ DecodeAddr(obs'.tx[1]) = A
             /\ Len(obs'.tx[1]) > 4 => DecodeData(obs'.tx[1]) = D ]_vars

\* C17 amended: read back big-endian, the data word is the original and
\* the address is the original reduced to the width the MMU mask lets
\* through (16, 18 or 22 bits); it is the original address exactly when
\* that address fits the width.
C17_RoundTripMasked ==
    [][ AddrSenderStep => \A A \in FrameAddrs, D \in HostData, mm \in MMUStates :
          ( SendsAddr(A, D, mm) /\ A <= ModelMask(cpu_model) )
          => /\ DecodeAddr(obs'.tx[1]) = A % MaskSpan(mm)
             /\ DecodeAddr(obs'.tx[1]) = A <=> A < MaskSpan(mm)
             /\ Len(obs'.tx[1]) > 4 => DecodeData(obs'.tx[1]) = D ]_vars

\* a 22-bit address sent whole by the 11/70, and one cut to 16 bits
C17_Witness ==
    /\ oc_ldsc.rcve
    /\ cpu_model = "MOD_1170"
    /\ obs.op = "oc_send_all"
    /\ DecodeAddr(obs.tx[1]) = ARegs.PRGPA % 65536
    /\ DecodeData(obs.tx[1]) = DRegs.SHFR

\* C18: 'A', 'B' and 'U' frames carry the address big-endian in three
\* bytes after the tag, the top byte masked with 0x00 (18-bit enable off),
\* 0x03 (18-bit on, 22-bit off) or 0x3F (both on), the other address bytes
\* and the two big-endian data bytes unmasked, with one mask for all three.
C18_FrameBytes ==
    [][ AddrSenderStep => \A A \in FrameAddrs, D \in HostData, mm \in MMUStates :
          SendsAddr(A, D, mm)
          => LET f == obs'.tx[1]
             IN  /\ f[1] \in {ChA, ChB, ChU}
                 /\ f[2] = ((A \div 65536) % 256) % (DocMask(mm) + 1)
                 /\ f[3] = (A \div 256) % 256
                 /\ f[4] = A % 256
                 /\ Len(f) > 4 => (f[5] = D \div 256 /\ f[6] = D % 256) ]_vars

\* a 'B' frame for 0x3F9112 and 0x1234 with the 18-bit mask
C18_Witness ==
    /\ oc_ldsc.rcve
    /\ obs.op = "oc_send_address_data"
    /\ obs.tx = << << ChB, 3, 145, 18, 18, 52 >> >>

\* C19: a recognized command byte that oc_get_console has processed sent
\* exactly one status frame ('F', port1, port2), as the last frame, with
\* the status bytes as the command left them, and TRUE was returned.
C19_StatusFrameLast ==
    ( /\ pc = "idle"
      /\ obs.op = "oc_get_console"
      /\ obs.rx # << >>
      /\ obs.rx[1] \in CmdAlphabet )
    => /\ obs.ret
       /\ Cardinality({ i \in DOMAIN obs.tx : obs.tx[i][1] = ChF }) = 1
       /\ obs.tx # << >>
       /\ obs.tx[Len(obs.tx)] = << ChF, oc_ctl.port1, oc_ctl.port2 >>

\* the status frame of an examine that raised the address error
C19_Witness ==
    /\ Processed(Chx)
    /\ oc_ctl.inv_addr
    /\ oc_ctl.port1 # 0
    /\ obs.tx[Len(obs.tx)] = << ChF, oc_ctl.port1, oc_ctl.port2 >>
    /\ Len(obs.tx) = 2

\* C20: a start command yields 'reset all' in halt mode HaltDown and
\* 'run <act_addr>' otherwise, and leaves the halt mode at 0 either way.
C20_Start ==
    [][ Completes(Chs)
        => /\ oc_ctl.halt = 2 => obs'.out = Cmd("reset all", 0, 0)
           /\ oc_ctl.halt # 2 => obs'.out = Cmd("run", oc_ctl.act_addr, 0)
           /\ oc_ctl'.halt = 0 ]_vars

\* a start with the HALT key down, after a load-address
C20_Witness ==
    /\ Processed(Chs)
    /\ obs.out = Cmd("reset all", 0, 0)
    /\ oc_ctl.halt = 0
    /\ oc_ctl.act_addr # 0

\* C21: a continue yields 'step' in halt mode HaltDown and leaves the
\* address-error bit of port1 as it was; otherwise it yields 'continue' and
\* leaves the address-error bit clear on the 11/45 and 11/70.
C21_Continue ==
    [][ Completes(Chc)
        => /\ oc_ctl.halt = 2
              => /\ obs'.out = Cmd("step", 0, 0)
                 /\ oc_ctl'.port1 = oc_ctl.port1
           /\ oc_ctl.halt # 2
              => /\ obs'.out = Cmd("continue", 0, 0)
                 /\ cpu_model = "MOD_1145"
                      => oc_ctl'.port1 = BitAnd(oc_ctl.port1, Not8(FSTS_1145_ADRSERR))
                 /\ cpu_model = "MOD_1170"
                      => oc_ctl'.port1 = BitAnd(oc_ctl.port1, Not8(FSTS_1170_ADRSERR)) ]_vars

\* a step with the address-error bit set by an earlier examine and still set
C21_Witness ==
    /\ Processed(Chc)
    /\ obs.out = Cmd("step", 0, 0)
    /\ cpu_model = "MOD_1170"
    /\ Has(oc_ctl.port1, FSTS_1170_ADRSERR)

\* C22: a load-address whose 'Q' is answered takes the switch value of the
\* reply, S[2]*65536 + S[1]*256 + S[0], masked to the width of the model (a
\* second masking changes nothing), into act_addr, sets first_exam and
\* first_dep, and after the 'Q' transmits the 'A' frame of the new act_addr and
\* then one acknowledge frame with mask LOAD.
C22_LoadAddress ==
    [][ ( pc = "load_swr" /\ pc' = "idle" /\ cpu_model \in Models )
        => LET S == oc_ctl'.S
               raw == S[2] * 65536 + S[1] * 256 + S[0]
               a == raw % (ModelMask(cpu_model) + 1)
               tx == obs'.tx
           IN  /\ obs'.rx = << Chl, S[0], S[1], S[2], S[3], S[4] >>
               /\ oc_ctl'.act_addr = a
               /\ BitAnd(a, ModelMask(cpu_model)) = a
               /\ oc_ctl'.first_exam /\ oc_ctl'.first_dep
               /\ Len(tx) = 4
               /\ tx[1] = FrameQ
               /\ \E mm \in MMUStates :
                     tx[2] = << ChA, (a \div 65536) % (DocMask(mm) + 1),
                                (a \div 256) % 256, a % 256 >>
               /\ tx[3] = << Chc, INP3 + 48, ACK_LOAD >>
               /\ Cardinality({ i \in DOMAIN tx : tx[i][1] = Chc }) = 1 ]_vars

\* a load-address of 0o17765000 on an 11/05, taken as 0o165000
C22_Witness ==
    /\ Processed(Chl)
    /\ Len(obs.rx) = 6
    /\ cpu_model = "MOD_1105"
    /\ oc_ctl.S[2] = 63 /\ oc_ctl.S[1] = 234 /\ oc_ctl.S[0] = 0
    /\ oc_ctl.act_addr = 59904

\* C23: after oc_attach has returned a failure status the link is inactive:
\* oc_show reports 'not active'.
C23_FailedAttachInactive ==
    ( pc = "idle" /\ obs.op = "oc_attach" /\ ~obs.ret ) => oc_show = "not active"

\* C24: when oc_get_console reads no byte, byte 0, or a byte outside
\* H, E, c, d, l, s, x, it returns FALSE, transmits no frame and leaves
\* act_addr, inv_addr, the first-flags, the halt mode and both status bytes
\* unchanged.
C24_StrayIgnored ==
    [][ ( /\ oc_ldsc.rcve
          /\ pc = "idle" /\ pc' = "idle"
          /\ obs'.op = "oc_get_console"
          /\ \/ obs'.rx = << >>
             \/ /\ Len(obs'.rx) = 1
                /\ obs'.rx[1] \notin {ChH, ChE, Chc, Chd, Chl, Chs, Chx} )
        => /\ ~obs'.ret
           /\ obs'.tx = << >>
           /\ obs'.out = NoCmd
           /\ oc_ctl'.act_addr = oc_ctl.act_addr
           /\ oc_ctl'.inv_addr = oc_ctl.inv_addr
           /\ oc_ctl'.first_exam = oc_ctl.first_exam
           /\ oc_ctl'.first_dep = oc_ctl.first_dep
           /\ oc_ctl'.halt = oc_ctl.halt
           /\ oc_ctl'.port1 = oc_ctl.port1
           /\ oc_ctl'.port2 = oc_ctl.port2 ]_vars

\* a stray byte read with the HALT key down after a load-address and an
\* examine
C24_Witness ==
    /\ oc_ldsc.rcve
    /\ pc = "idle"
    /\ obs.op = "oc_get_console"
    /\ obs.rx = << ChStray >>
    /\ ~obs.ret
    /\ oc_ctl.halt = 2
    /\ oc_ctl.act_addr # 0
    /\ ~oc_ctl.first_exam

\* C25: a load-address or deposit whose 'Q' cannot be written is skipped:
\* act_addr, inv_addr and the first-flags keep their values and no
\* pseudo-command is built from the stale snapshot.
C25_WriteFailureSkips ==
    [][ ( /\ oc_ldsc.rcve
          /\ pc = "idle" /\ pc' = "idle"
          /\ obs'.op = "oc_get_console"
          /\ obs'.rx \in { << Chl >>, << Chd >> } )
        => /\ oc_ctl'.act_addr = oc_ctl.act_addr
           /\ oc_ctl'.inv_addr = oc_ctl.inv_addr
           /\ oc_ctl'.first_exam = oc_ctl.first_exam
           /\ oc_ctl'.first_dep = oc_ctl.first_dep
           /\ obs'.out = NoCmd ]_vars

\* C26: oc_mmu and oc_ringprot write disjoint status bits: from any state
\* one of the two has left, calling the two in either order yields the same
\* port1 and port2.
C26_ProducersCommute ==
    obs.op \in {"oc_mmu", "oc_ringprot"} =>
    \A mm \in MMUStates, value \in {MD_KER, MD_SUP, MD_UND, MD_USR} :
        LET mr == RingCtl(MmuCtl(oc_ctl, cpu_model, mm), cpu_model, value)
            rm == MmuCtl(RingCtl(oc_ctl, cpu_model, value), cpu_model, mm)
        IN  mr.port1 = rm.port1 /\ mr.port2 = rm.port2

\* the snapshot bytes that carry the key and the HALT switch of each model
KeyByte(m) ==
    CASE m = "MOD_1145" -> INP3 [] m = "MOD_1170" -> INP5 [] OTHER -> INP2
HaltByte(m) == IF m \in {"MOD_1145", "MOD_1170"} THEN INP5 ELSE INP2

\* the console reports the key at POWER and the HALT switch down
ReportsHaltDown ==
    /\ cpu_model \in Models
    /\ BitAnd(oc_ctl.S[KeyByte(cpu_model)], SW_PL(cpu_model)) = 0
    /\ BitAnd(oc_ctl.S[HaltByte(cpu_model)], SW_HE(cpu_model)) # 0

\* the state right after a successful return of oc_attach
Attached == pc = "idle" /\ obs.op = "oc_attach" /\ obs.ret

\* C27 as stated: right after every successful attach the control block is
\* fresh and the halt mode is 0 whatever the switches report.
C27_FreshHaltZero ==
    Attached
    => /\ oc_ctl.act_addr = 0 /\ ~oc_ctl.inv_addr
       /\ oc_ctl.port1 = 0 /\ oc_ctl.port2 = 0
       /\ oc_ctl.c_upd = 0 /\ oc_ctl.c_rot = 0
       /\ oc_ctl.first_exam /\ oc_ctl.first_dep
       /\ oc_ctl.halt = 0

\* C27: right after every successful attach act_addr, inv_addr, both status
\* bytes and both counters are zero and the first-flags are set; the halt mode
\* is 2 when the console reports the key at POWER and the HALT switch down,
\* and 0 otherwise, never 1.
C27_FreshHaltFromSwitch ==
    Attached
    => /\ oc_ctl.act_addr = 0 /\ ~oc_ctl.inv_addr
       /\ oc_ctl.port1 = 0 /\ oc_ctl.port2 = 0
       /\ oc_ctl.c_upd = 0 /\ oc_ctl.c_rot = 0
       /\ oc_ctl.first_exam /\ oc_ctl.first_dep
       /\ oc_ctl.halt = IF ReportsHaltDown THEN 2 ELSE 0

\* an attach answered with the HALT switch down
C27_Witness ==
    /\ Attached
    /\ Len(obs.rx) = QUERY_SWR_BYTES
    /\ ReportsHaltDown
    /\ oc_ctl.halt = 2
    /\ oc_ctl.act_addr = 0

\* the pseudo-commands the interpreter executes, and the comment lines
Executables == {"examine", "deposit", "continue", "step", "run", "reset all"}
CommentLines == {";halt key down", ";halt key up", ";load address",
                 ";address out of defined range", ";no deposit in boot rom range"}

\* C28: every line oc_get_console builds is one of the six executable
\* pseudo-commands or one of the five comment lines; HALT key down / up and
\* load-address build comment lines; oc_read_line_p hands an executable on as
\* it is and a comment line as the empty command.
C28_OnlyExecutables ==
    [][ obs'.op = "oc_read_line_p"
        => LET text == obs.out.text
           IN  /\ text \in Executables \cup CommentLines
               /\ obs.rx[1] = ChH => text = ";halt key down"
               /\ obs.rx[1] = ChE => text = ";halt key up"
               /\ obs.rx[1] = Chl => text = ";load address"
               /\ text \in CommentLines => obs'.out = NoCmd
               /\ text \in Executables => obs'.out = obs.out
               /\ obs'.out.text \in Executables \cup {""} ]_vars

\* a deposit into the boot rom window, handed on as the empty command
C28_Witness ==
    /\ obs.op = "oc_read_line_p"
    /\ obs.rx[1] = Chd
    /\ oc_ctl.act_addr = 59904
    /\ obs.out = NoCmd

\* a step in which oc_svc finds the link active and the interval elapsed
EmitsTick ==
    /\ pc = "idle" /\ queued /\ oc_ldsc.rcve /\ elapsed >= OC_INTERVAL
    /\ obs'.op = "oc_svc"

\* the frames of kind 'B' and of kind 'U' among the frames of a tick
DisplayFrames(tx, tag) == { i \in DOMAIN tx : tx[i][1] = tag }

\* C29 as stated: every frame-emitting tick transmits a 'B' frame, the status
\* tick in addition to its 'U' frame.
C29_BEveryTick ==
    [][ EmitsTick => DisplayFrames(obs'.tx, ChB) # {} ]_vars

\* C29: every frame-emitting tick transmits exactly one display frame as its
\* first frame: a 'B' frame of six bytes, or on a status tick a 'U' frame of
\* eight bytes instead of it, never both.
C29_OneDisplayFrame ==
    [][ EmitsTick
        => LET tx == obs'.tx
           IN  /\ tx # << >>
               /\ Cardinality(DisplayFrames(tx, ChB) \cup DisplayFrames(tx, ChU)) = 1
               /\ \/ tx[1][1] = ChB /\ Len(tx[1]) = 6
                  \/ tx[1][1] = ChU /\ Len(tx[1]) = 8 ]_vars

\* a status tick: the 'U' frame and no 'B' frame
C29_Witness ==
    /\ pc = "idle"
    /\ obs.op = "oc_svc"
    /\ obs.tx # << >>
    /\ obs.tx[1][1] = ChU
    /\ DisplayFrames(obs.tx, ChB) = {}
    /\ Len(tickLog) > 5

\* the positions of the two knobs in the snapshot of an 11/45 or 11/70
KnobAddr(S, m) == IF m = "MOD_1145" THEN (S[2] \div 16) % 8 ELSE S[4] % 8
KnobData(S, m) == IF m = "MOD_1145" THEN (S[2] \div 4) % 4 ELSE (S[4] \div 8) % 4

\* the address and data a tick has to show
ShownAddr(S, m) ==
    IF ~Rotary(m) THEN ARegs.PRGPA % (ModelMask(m) + 1)
    ELSE LET k == KnobAddr(S, m)
         IN  CASE k = 0 -> ARegs.PRGPA % (ModelMask(m) + 1)
               [] k = 3 -> ARegs.CONPA % (ModelMask(m) + 1)
               [] k = 1 -> ARegs.KERND % 65536
               [] k = 2 -> ARegs.KERNI % 65536
               [] k = 4 -> ARegs.SUPRD % 65536
               [] k = 5 -> ARegs.SUPRI % 65536
               [] k = 6 -> ARegs.USERD % 65536
               [] OTHER -> ARegs.USERI % 65536
ShownData(S, m) ==
    IF ~Rotary(m) THEN DRegs.SHFR
    ELSE LET k == KnobData(S, m)
         IN  CASE k = 0 -> DRegs.BR [] k = 1 -> DRegs.SHFR
               [] k = 2 -> DRegs.DR [] OTHER -> DRegs.FPP

\* C30: on the 11/05, 11/20 and 11/40 the display frame of every tick shows
\* the program physical address masked to the model width and the shifter
\* register whatever the snapshot holds, and no 'R' is transmitted; on the
\* 11/45 and 11/70 it shows the address and data the knob fields of the
\* snapshot select, virtual addresses masked to 16 bits and physical ones to
\* the model width.
C30_Display ==
    [][ /\ ( cpu_model \in {"MOD_1105", "MOD_1120", "MOD_1140"} )
            => \A i \in DOMAIN obs'.tx : obs'.tx[i][1] # ChR
        /\ ( EmitsTick /\ cpu_model \in Models )
            => \A mm \in MMUSome, ind \in BOOLEAN, wf \in BOOLEAN :
                  oc_svc(mm, ind, 0, wf, 0)
                  => LET A == ShownAddr(oc_ctl.S, cpu_model)
                         D == ShownData(oc_ctl.S, cpu_model)
                         f == obs'.tx[1]
                     IN  /\ f[1] \in {ChB, ChU}
                         /\ f[2] = (A \div 65536) % (DocMask(mm) + 1)
                         /\ f[3] = (A \div 256) % 256
                         /\ f[4] = A % 256
                         /\ f[5] = D \div 256
                         /\ f[6] = D % 256 ]_vars

\* a tick of an 11/70 with the address knob at USER D and the data knob at
\* the microprogram address
C30_Witness ==
    /\ pc = "idle"
    /\ obs.op = "oc_svc"
    /\ cpu_model = "MOD_1170"
    /\ oc_ctl.S[4] % 8 = 6
    /\ obs.tx # << >>
    /\ obs.tx[1] = << ChB, 0, 85, 85, 1, 35 >>

\* oc_get_console has just returned command c with a line that begins text
SuccessOf(c, text) == Processed(c) /\ obs.out.text = text

\* the command of this step targets the address the state before it holds
SameTarget(text) ==
    /\ oc_ctl'.act_addr = oc_ctl.act_addr
    /\ obs'.out.text = text => obs'.out.a = oc_ctl.act_addr

\* C32: an examine that directly follows a successful deposit or a
\* load-address, and a deposit that directly follows a successful examine or a
\* load-address, targets the address act_addr already holds. The deposit
\* waits for the answer to its 'Q': the state it follows has first_dep set,
\* the wait changes nothing, and a deposit that ends a wait with first_dep set
\* does not increment.
C32_NoIncrementAcross ==
    [][ /\ ( ( SuccessOf(Chd, "deposit") \/ Processed(Chl) ) /\ Completes(Chx) )
            => SameTarget("examine")
        /\ ( SuccessOf(Chx, "examine") \/ Processed(Chl) )
            => /\ oc_ctl.first_dep
               /\ Completes(Chd) => SameTarget("deposit")
               /\ pc' = "dep_swr" => oc_ctl' = oc_ctl
        /\ ( pc = "dep_swr" /\ pc' = "idle" /\ oc_ctl.first_dep )
            => SameTarget("deposit") ]_vars

\* an examine of 0o2002 reached by one increment, after a deposit of the
\* data switches 0xABCD
C32_Witness ==
    /\ SuccessOf(Chx, "examine")
    /\ obs.out.a = 1026
    /\ nincr = 1
    /\ oc_ctl.S = Snapshot(43981, 0, 0, 0)
    /\ oc_ctl.first_dep /\ ~oc_ctl.first_exam

\* C33: no frame-emitting tick follows another within OC_INTERVAL: right
\* after a frame-emitting tick, as long as no host time has passed, no step
\* leads to a state in which an invocation of oc_svc would emit again.
C33_TicksApart ==
    [][ ( /\ pc = "idle"
          /\ obs.op = "oc_svc" /\ obs.tx # << >>
          /\ elapsed = 0
          /\ ~HostTime )
        => ~( /\ pc' = "idle" /\ queued' /\ oc_ldsc'.rcve
              /\ elapsed' >= OC_INTERVAL ) ]_vars

\* C34: every examine and every deposit, carried out or rejected, transmits
\* exactly one acknowledge frame, with mask EXAM resp. DEPO and on the five
\* supported models the port byte '2', as the last frame before the closing
\* status frame and so after the 'A' or 'B' frame of the command.
C34_OneAcknowledge ==
    \A c \in {Chx, Chd} :
        Processed(c) =>
            LET tx == obs.tx
                n == Len(tx)
            IN  /\ n >= 2
                /\ AckFrames = {n - 1}
                /\ tx[n - 1][3] = IF c = Chx THEN 1 ELSE 64
                /\ cpu_model \in Models => tx[n - 1][2] = 50
                /\ tx[n][1] = ChF
                /\ \A i \in 1 .. (n - 2) : tx[i][1] \in {ChQ, ChA, ChB}
                /\ obs.out.text \in {"examine", "deposit"}
                     => tx[n - 2][1] = IF c = Chx THEN ChA ELSE ChB

\* a deposit rejected for the boot rom window, acknowledged all the same
C34_Witness ==
    /\ Processed(Chd)
    /\ obs.out.text = ";no deposit in boot rom range"
    /\ Len(obs.tx) = 3
    /\ obs.tx[2] = << Chc, 50, ACK_DEPO >>

\* rejected examines and deposits
Rejections == {";address out of defined range", ";no deposit in boot rom range"}

\* C35: once attach has set them, first_exam and first_dep are never both
\* FALSE; a load-address sets both, a successful examine sets
\* (first_exam, first_dep) = (FALSE, TRUE), a successful deposit (TRUE, FALSE),
\* and rejected commands and all other commands leave both as they were.
C35_FirstFlags ==
    [][ /\ ( oc_ctl.first_exam \/ oc_ctl.first_dep )
            => ( oc_ctl'.first_exam \/ oc_ctl'.first_dep )
        /\ ( obs'.op = "oc_attach" /\ obs'.ret )
            => ( oc_ctl'.first_exam /\ oc_ctl'.first_dep )
        /\ Completes(Chl) => ( oc_ctl'.first_exam /\ oc_ctl'.first_dep )
        /\ ( Completes(Chx) /\ obs'.out.text = "examine" )
            => ( ~oc_ctl'.first_exam /\ oc_ctl'.first_dep )
        /\ ( Completes(Chd) /\ obs'.out.text = "deposit" )
            => ( oc_ctl'.first_exam /\ ~oc_ctl'.first_dep )
        /\ ( \/ \E c \in {Chx, Chd} : Completes(c) /\ obs'.out.text \in Rejections
             \/ \E c \in {ChH, ChE, Chc, Chs} : Completes(c)
             \/ obs'.op = "oc_get_console" /\ ~obs'.ret )
            => /\ oc_ctl'.first_exam = oc_ctl.first_exam
               /\ oc_ctl'.first_dep = oc_ctl.first_dep ]_vars

\* a deposit carried out after an examine: the flags have changed sides
C35_Witness ==
    /\ SuccessOf(Chd, "deposit")
    /\ oc_ctl.first_exam /\ ~oc_ctl.first_dep
    /\ nincr = 1

\* the 'i' frames among the frames of an operation
ClearFrames(tx) == { i \in DOMAIN tx : tx[i] = << Chi >> }

\* C36: a byte the HALT poll consumes, in a status tick of oc_svc or in a
\* call of oc_get_halt, changes the halt mode only if it is 'H' (to 2, with
\* result TRUE); c, d, l, s and x cause exactly one 'i' frame; any other
\* byte, 'E' among them, transmits nothing; and no such byte yields a
\* pseudo-command or changes act_addr or the first-flags.
C36_HaltPoll ==
    [][ LET skip == IF pc = "svc_rot" THEN 1 ELSE 0
            rx == obs'.rx
        IN  ( /\ oc_ldsc.rcve
              /\ pc' = "idle"
              /\ obs'.op \in {"oc_svc", "oc_get_halt"}
              /\ Len(rx) > skip
              /\ ~HostTime )
            => LET hb == rx[skip + 1]
                   alone == obs'.op = "oc_get_halt"
               IN  /\ Len(rx) = skip + 1
                   /\ hb = ChH
                        => /\ oc_ctl'.halt = 2
                           /\ alone => obs'.ret
                   /\ hb # ChH
                        => /\ oc_ctl'.halt = oc_ctl.halt
                           /\ alone => ~obs'.ret
                   /\ hb \in {Chc, Chd, Chl, Chs, Chx}
                        => /\ Cardinality(ClearFrames(obs'.tx)) = 1
                           /\ obs'.tx[Len(obs'.tx)] = << Chi >>
                   /\ hb \notin {Chc, Chd, Chl, Chs, Chx}
                        => /\ ClearFrames(obs'.tx) = {}
                           /\ alone => obs'.tx = << >>
                   /\ obs'.out = NoCmd
                   /\ oc_ctl'.act_addr = oc_ctl.act_addr
                   /\ oc_ctl'.first_exam = oc_ctl.first_exam
                   /\ oc_ctl'.first_dep = oc_ctl.first_dep ]_vars

\* a status tick that found an examine byte after a load-address and an
\* examine: one 'i' frame, address and flags as the examine left them
C36_Witness ==
    /\ pc = "idle"
    /\ obs.op = "oc_svc"
    /\ obs.rx = << Chx >>
    /\ obs.tx[Len(obs.tx)] = << Chi >>
    /\ oc_ctl.act_addr = 1024
    /\ ~oc_ctl.first_exam

\* a step in which the HALT poll of a tick or of the cpu simulator reads 'H'
PollReadsH ==
    /\ obs'.op \in {"oc_svc", "oc_get_halt"}
    /\ obs'.rx # << >>
    /\ obs'.rx[Len(obs'.rx)] = ChH

\* C37 as stated, its last sentence: halt mode 0 is entered from halt mode 2
\* by a start and by nothing else.
C37_RunOnlyByStart ==
    [][ ( oc_ctl.halt = 2 /\ oc_ctl'.halt = 0 ) => Completes(Chs) ]_vars

\* C37: the halt mode is 0, 1 or 2. 'H' read by oc_get_console or by the
\* HALT poll makes it 2, 'E' read by oc_get_console makes it 1, a start makes
\* it 0, a continue makes it 0 unless it is 2, an attach makes it 0 or 2;
\* nothing else changes it, so that 0 is entered from 2 by a start or by an
\* attach only.
C37_HaltMode ==
    [][ /\ oc_ctl'.halt \in {0, 1, 2}
        /\ Completes(ChH) => oc_ctl'.halt = 2
        /\ Completes(ChE) => oc_ctl'.halt = 1
        /\ Completes(Chs) => oc_ctl'.halt = 0
        /\ Completes(Chc) => oc_ctl'.halt = IF oc_ctl.halt = 2 THEN 2 ELSE 0
        /\ ( oc_ctl'.halt # oc_ctl.halt /\ oc_ctl'.halt = 2 )
            => ( Completes(ChH) \/ PollReadsH \/ obs'.op = "oc_attach" )
        /\ ( oc_ctl'.halt # oc_ctl.halt /\ oc_ctl'.halt = 1 )
            => Completes(ChE)
        /\ ( oc_ctl'.halt # oc_ctl.halt /\ oc_ctl'.halt = 0 )
            => ( Completes(Chs) \/ Completes(Chc) \/ obs'.op = "oc_attach" )
        /\ ( oc_ctl.halt = 2 /\ oc_ctl'.halt = 0 )
            => ( Completes(Chs) \/ obs'.op = "oc_attach" ) ]_vars

\* a single step: continue with the HALT key down, the mode still 2, with
\* status ticks in between
C37_Witness ==
    /\ Processed(Chc)
    /\ obs.out.text = "step"
    /\ oc_ctl.halt = 2
    /\ Len(tickLog) > 6

\* C38: whenever the link is active and no entry point is under way, oc_svc
\* is pending in the event queue.
C38_ActivePending ==
    ( oc_ldsc.rcve /\ pc = "idle" ) => queued

\* C31: a reader service event that finds no file attached, or the tape at its
\* end, returns a stop status exactly when STOP_IOE is 1 and SCPE_OK
\* otherwise; one that meets a read error of the host system returns a stop
\* status whatever STOP_IOE is; and all three leave the CSR with ERR set, BUSY
\* clear and DONE clear.
C31_ReaderErrors ==
    [][ \A ioerr \in BOOLEAN :
          ptr_svc(ioerr) =>
            LET noTape == ~ptr_unit.att
                atEnd == ptr_unit.att /\ ~ioerr /\ ptr_unit.pos >= Len(Tape)
                ioError == ptr_unit.att /\ ioerr
            IN  /\ ( noTape \/ atEnd ) =>
                     ( ptobs'.ret # "SCPE_OK" <=> ptr_stopioe = 1 )
                /\ ioError => ptobs'.ret # "SCPE_OK"
                /\ ( noTape \/ atEnd \/ ioError ) =>
                     /\ BitAnd(ptr_csr', CSR_ERR) # 0
                     /\ BitAnd(ptr_csr', CSR_BUSY + CSR_DONE) = 0
      ]_vars

\* the tape has been read to its end and the next service event, with
\* STOP_IOE 0, has gone by as 'out of tape'
C31_Witness ==
    /\ ptobs.op = "ptr_svc"
    /\ ptobs.data.feof
    /\ ptobs.ret = "SCPE_OK"
    /\ ptr_stopioe = 0
    /\ ptr_unit.att /\ ptr_unit.pos = Len(Tape) /\ ~ptr_unit.active
    /\ BitAnd(ptr_csr, CSR_ERR) # 0

\* C40: an interrupt request of the reader is pending only while the IE bit of
\* the reader's CSR is set, and a request of the punch only while the IE bit
\* of the punch's CSR is set.
C40_RequestImpliesEnable ==
    /\ "PTR" \in int_req => BitAnd(ptr_csr, CSR_IE) # 0
    /\ "PTP" \in int_req => BitAnd(ptp_csr, CSR_IE) # 0

\* both devices have raised a request from their service events
C40_Witness ==
    /\ int_req = { "PTR", "PTP" }
    /\ ptobs.op = "ptp_svc"
    /\ BitAnd(ptr_csr, CSR_DONE) # 0
    /\ BitAnd(ptp_csr, CSR_DONE) # 0

\* C39: no keystroke is stored outside the caller's buffer: every cell before
\* cptr and every cell at or beyond cptr + size is as the caller left it.
C39_WriteInsideBuffer ==
    \A i \in Cells : ( i < 0 \/ i >= CBUFSIZE ) => cbuf[i] = Unset

\* C10: a repeated examine or deposit of an address in the register alias
\* window 0x3FFC0 .. 0x3FFC7 moves act_addr by one.
C10_RegSpaceStep ==
    [][ /\ ( Completes(Chx) /\ ~oc_ctl.first_exam /\ InRegSpace(oc_ctl.act_addr) )
            => oc_ctl'.act_addr = oc_ctl.act_addr + 1
        /\ ( Completes(Chd) /\ ~oc_ctl.first_dep /\ InRegSpace(oc_ctl.act_addr) )
            => oc_ctl'.act_addr = oc_ctl.act_addr + 1 ]_vars

\* the second examine after a load-address of 0o777700
C10_Witness ==
    /\ Processed(Chx)
    /\ obs.out = Cmd("examine", 262081, 0)
    /\ nincr = 1

====
